---- MODULE Spec2Model ----
(***************************************************************************)
(* Leafcutter colony simulation: the Simulation driver (simulation.py),    *)
(* the Environment tick pipeline (environment.py) and the five entity      *)
(* behaviours (models/*.py).                                               *)
(*                                                                         *)
(* Scaling.  Fungus nutrition and health are floats in the source; they    *)
(* are kept here in tenths (nutrition 10.0 is 100, health 1.0 is 10, the   *)
(* growth step 0.1 is 1).  Parasite virulence is kept in units of 1e-5.    *)
(* A probability_check(p) is a nondeterministic choice when p > 0 and      *)
(* False when p = 0 (random.random() < 0 never holds).                     *)
(*                                                                         *)
(* Control.  The program is single threaded.  pc is the position inside    *)
(* Environment.step(); the driver's methods are called only when           *)
(* pc.phase = "idle", and a call that ticks runs the phases of step() in   *)
(* their order before it returns to its caller.                            *)
(***************************************************************************)
EXTENDS Integers, Sequences, FiniteSets, TLC

\* ------------------------------------------------------------------ bounds
\* Initial random placements are drawn from the cells (0, 0..InitSpan).
InitSpan == 1
\* No environment is ticked more than MaxTicks times.
MaxTicks == 2
\* Explicit max_steps arguments of run() are drawn from 0..MaxRunArg.
MaxRunArg == 0
\* The driver is called at most MaxCalls times after its construction.
MaxCalls == 4

\* --------------------------------------------------------- program constants
FUNGUS_MAX_AGE == 100
PARASITE_MAX_AGE == 200
MAX_SPREAD_ATTEMPTS == 5
PREDATOR_MAX_ENERGY == 150
PREDATOR_START_ENERGY == 100
ENERGY_DECAY_RATE == 2
HUNT_RANGE == 3
MEAL_ENERGY == 30
REGEN_ATTEMPTS == 20
MIN_VIABLE == 3
\* nutrition (tenths): Fungus() starts at 10.0, is consumable above 5, grows
\* by 0.1 while age < 20 and nutrition < 20
FUNGUS_NUTRITION == 100
CONSUMABLE_ABOVE == 50
GROWTH_STEP == 1
GROWTH_AGE == 20
GROWTH_CAP == 200
\* health (tenths): starts at 1.0, suppression needs health > 0.4
FUNGUS_HEALTH == 10
SUPPRESS_ABOVE == 4
PLANT_MATURITY == 100
\* virulence (1e-5): Parasite() starts at 1.0, offspring max(0.3, v * 0.8),
\* decays by 1% per update after age 50 down to 0.1
VIRULENCE_ONE == 100000
VIRULENCE_CHILD_MIN == 30000
VIRULENCE_FLOOR == 10000
VIRULENCE_DECAY_AGE == 50

TILE_EMPTY == "empty"
TILE_ANT == "ant"
TILE_PLANT == "plant"
TILE_FUNGUS == "fungus"
TILE_PARASITE == "parasite"
TILE_PREDATOR == "predator"

\* Direction enum of utils.py: NORTH, SOUTH, WEST, EAST, STAY
Direction == { <<-1, 0>>, <<1, 0>>, <<0, -1>>, <<0, 1>>, <<0, 0>> }

\* ------------------------------------------------------------ configurations
\* A SimulationConfig.  regen, spawn and spread say whether the configured
\* probability (plant_regeneration.probability times the climate multiplier,
\* base_spawn_chance times its multipliers, spread_chance) is positive.
\* food_threshold is in whole nutrition units as in the source.  target_ratio
\* (predator_balance.target_ant_predator_ratio), base_spawn_chance
\* (predator_balance.base_spawn_chance), rain_spawn_reduction
\* (climate.rain_effects.predator_spawn_reduction) and dry_spawn_increase
\* (climate.dry_effects.predator_spawn_increase) are floats, kept as fractions
\* << numerator, denominator >>; the last three have the values of get_default.
Cfg(name, steps, a, p, f, pa, pr, interval, regen, maxp, thr, period, larvae, cycle, spawn, spread) ==
    [ name |-> name, grid_size |-> 5, simulation_steps |-> steps,
      initial_ants |-> a, initial_plants |-> p, initial_fungi |-> f,
      initial_parasites |-> pa, initial_predators |-> pr,
      interval |-> interval, regen |-> regen, max_plants |-> maxp,
      food_threshold |-> thr, larvae_period |-> period, larvae_per_cycle |-> larvae,
      cycle_length |-> cycle, target_ratio |-> << 10, 1 >>, spawn |-> spawn, spread |-> spread,
      base_spawn_chance |-> IF spawn THEN << 1, 20 >> ELSE << 0, 1 >>,
      rain_spawn_reduction |-> << 1, 2 >>, dry_spawn_increase |-> << 3, 2 >> ]

\* Scenario A of the specification: one ant and nothing else.
ScenarioA == Cfg("A", 1, 1, 0, 0, 0, 0, 5, FALSE, 1, 15, 10, 1, 2, FALSE, FALSE)
\* One ant and one plant: fewer than three of ants, plants and fungi.
Pair == Cfg("pair", 2, 1, 1, 0, 0, 0, 5, FALSE, 1, 15, 10, 1, 2, FALSE, FALSE)
\* One ant among two plants; a harvested plant feeds a larva at once.
Harvest == Cfg("harvest", 1, 1, 2, 0, 0, 0, 2, TRUE, 3, 10, 1, 1, 2, FALSE, FALSE)
\* One ant, one plant and one fungus already growing.
Garden == Cfg("garden", 2, 1, 1, 1, 0, 0, 5, FALSE, 1, 15, 10, 1, 2, FALSE, FALSE)
\* Two ants, a plant, a parasite and a predator.
Threats == Cfg("threats", 2, 2, 1, 0, 1, 1, 5, FALSE, 1, 15, 10, 1, 1, TRUE, TRUE)

Configs == { ScenarioA, Pair, Harvest, Garden, Threats }

VARIABLES
    config,          \* Simulation.config
    is_running,      \* Simulation.is_running
    current_step,    \* Simulation.current_step
    step_count,      \* Environment.step_count
    ants, plants, fungi, parasites, predators,   \* the five collections
    current_climate, \* Environment.current_climate
    climate_timer,   \* Environment.climate_timer
    metrics,         \* Environment.metrics: eight arrays keyed by name
    pc,              \* position inside Environment.step()
    caller,          \* which driver method runs the tick in progress
    gen,             \* the generator object returned by run()
    op,              \* the driver method called last
    raised,          \* whether the last call ended by raising
    result,          \* what the last call returned or yielded
    entry,           \* current_step, step_count and the lengths of the collections (in
                     \* their update order) when the tick in progress was entered
    calls,           \* number of driver calls since construction
    stopped,         \* whether stop() was called on a running driver and reset() not since
    draw,            \* what the random source gave to the step taken last
    args             \* the function called on its own and the data it is given

env == << step_count, ants, plants, fungi, parasites, predators,
          current_climate, climate_timer, metrics >>
driver == << config, is_running, current_step >>
vars == << config, is_running, current_step, step_count, ants, plants, fungi,
           parasites, predators, current_climate, climate_timer, metrics,
           pc, caller, gen, op, raised, result, entry, calls, stopped, draw, args >>

\* ------------------------------------------------------------------ helpers
Abs(n) == IF n < 0 THEN -n ELSE n
Min(a, b) == IF a < b THEN a ELSE b
Max(a, b) == IF a > b THEN a ELSE b

\* floats are kept as fractions << numerator, denominator >> in lowest terms
\* with a positive denominator
GCD(a, b) ==
    LET RECURSIVE gcd(_, _)
        gcd(x, y) == IF y = 0 THEN x ELSE gcd(y, x % y)
    IN  gcd(Abs(a), Abs(b))

Frac(n, d) == << n \div GCD(n, d), d \div GCD(n, d) >>
FAdd(a, b) == Frac(a[1] * b[2] + b[1] * a[2], a[2] * b[2])
FSub(a, b) == Frac(a[1] * b[2] - b[1] * a[2], a[2] * b[2])
FMul(a, b) == Frac(a[1] * b[1], a[2] * b[2])
FDiv(a, b) == Frac(a[1] * b[2], a[2] * b[1])
FAbs(a) == << Abs(a[1]), a[2] >>
FLeq(a, b) == a[1] * b[2] <= b[1] * a[2]
FMin(a, b) == IF FLeq(a, b) THEN a ELSE b
FMax(a, b) == IF FLeq(a, b) THEN b ELSE a

Cells(g) == (0 .. g - 1) \X (0 .. g - 1)
InitCells == { <<0, y>> : y \in 0 .. InitSpan }

manhattan_distance(p, q) == Abs(p[1] - q[1]) + Abs(p[2] - q[2])

\* a move that is not clamped to the grid
clamp_position_Unclamped(p, g) == p

clamp_position(p, g) == << Max(0, Min(p[1], g - 1)), Max(0, Min(p[2], g - 1)) >>

\* the neighbours of a cell with the four diagonal ones among them
get_neighbors_Diagonals(p, g) ==
    SelectSeq(<< << p[1] - 1, p[2] >>, << p[1] + 1, p[2] >>, << p[1], p[2] - 1 >>,
                 << p[1], p[2] + 1 >>, << p[1] - 1, p[2] - 1 >>, << p[1] - 1, p[2] + 1 >>,
                 << p[1] + 1, p[2] - 1 >>, << p[1] + 1, p[2] + 1 >> >>,
              LAMBDA q : q \in Cells(g))

\* get_neighbors(position, grid_size): the four cardinal neighbours inside the
\* grid, in the order (-1,0), (1,0), (0,-1), (0,1)
get_neighbors(p, g) ==
    LET cand == << <<p[1] - 1, p[2]>>, <<p[1] + 1, p[2]>>, <<p[1], p[2] - 1>>, <<p[1], p[2] + 1>> >>
    IN  SelectSeq(cand, LAMBDA c : c \in Cells(g))

SeqSet(s) == { s[i] : i \in DOMAIN s }

\* constructors (Entity.__init__ and the subclasses' __init__)
Ant(pos) == [ position |-> pos, active |-> TRUE ]
Plant(pos) == [ position |-> pos, active |-> TRUE, maturity |-> PLANT_MATURITY ]
Fungus(pos) == [ position |-> pos, active |-> TRUE, nutrition_value |-> FUNGUS_NUTRITION,
                 age |-> 0, health |-> FUNGUS_HEALTH ]
Parasite(pos, v) == [ position |-> pos, active |-> TRUE, virulence |-> v, age |-> 0,
                      spread_attempts |-> 0 ]
Predator(pos) == [ position |-> pos, active |-> TRUE, energy |-> PREDATOR_START_ENERGY ]

deactivate(e) == [ e EXCEPT !.active = FALSE ]
is_at_position(e, pos) == e.position = pos

\* sequences of n cells drawn from S: random_positions(count, grid_size)
Placements(n, S) == [ 1 .. n -> S ]

EmptyMetrics ==
    [ step |-> << >>, ant_count |-> << >>, plant_count |-> << >>, fungus_count |-> << >>,
      parasite_count |-> << >>, predator_count |-> << >>, food_stock |-> << >>,
      climate |-> << >> ]

Idle == [ phase |-> "idle", list |-> 0, i |-> 0, n |-> 0 ]
At(ph) == [ phase |-> ph, list |-> 0, i |-> 0, n |-> 0 ]
NoGen == [ state |-> "none", max_steps |-> 0, yields |-> 0, ticks |-> 0, alone |-> TRUE ]
NoEntry == [ current_step |-> 0, step_count |-> 0, lens |-> << 0, 0, 0, 0, 0 >> ]
None == "None"
\* what a call handed back: nothing, a rendered grid, or a generator object
NoResult == [ kind |-> "none", grid |-> << >> ]
Rendered(grid) == [ kind |-> "grid", grid |-> grid ]
GeneratorObject == [ kind |-> "generator", grid |-> << >> ]
\* run(max_steps=None)
DefaultSteps == -1
\* what a step drew from the random module: the outcome of its
\* probability_check ("hit" or "miss", "none" when it made none) and the value
\* of its random.choice or random.randint pair (<< >> when it made none)
Draw(check, choice) == [ check |-> check, choice |-> choice ]
NoDraw == Draw("none", << >>)
NoArgs == [ kind |-> "none" ]


\* Interleaved(g): the generator object after another driver method was called
\* while it was still live (history only: the flag is read by no action)
Interleaved(g) ==
    IF g.state \in {"created", "suspended"} THEN [ g EXCEPT !.alone = FALSE ] ELSE g

\* -------------------------------------------------------------- Environment
\* the cells of a placement, each once, in the order they were drawn
RECURSIVE FirstDrawn(_, _)
FirstDrawn(cells, k) ==
    IF k > Len(cells) THEN << >>
    ELSE (IF \E j \in 1 .. k - 1 : cells[j] = cells[k] THEN << >> ELSE << cells[k] >>)
         \o FirstDrawn(cells, k + 1)

\* an initialisation that puts at most one entity of a kind on a cell
Environment_OnePerCell(c) ==
    { [ step_count |-> 0,
        ants |-> [ i \in DOMAIN FirstDrawn(ap, 1) |-> Ant(FirstDrawn(ap, 1)[i]) ],
        plants |-> [ i \in DOMAIN FirstDrawn(pp, 1) |-> Plant(FirstDrawn(pp, 1)[i]) ],
        fungi |-> [ i \in DOMAIN FirstDrawn(fp, 1) |-> Fungus(FirstDrawn(fp, 1)[i]) ],
        parasites |-> [ i \in DOMAIN FirstDrawn(sp, 1) |->
                           Parasite(FirstDrawn(sp, 1)[i], VIRULENCE_ONE) ],
        predators |-> [ i \in DOMAIN FirstDrawn(dp, 1) |-> Predator(FirstDrawn(dp, 1)[i]) ],
        current_climate |-> "dry", climate_timer |-> 0, metrics |-> EmptyMetrics ] :
      ap \in Placements(c.initial_ants, InitCells),
      pp \in Placements(c.initial_plants, InitCells),
      fp \in Placements(c.initial_fungi, InitCells),
      sp \in Placements(c.initial_parasites, InitCells),
      dp \in Placements(c.initial_predators, InitCells) }

\* Environment.__init__ with _initialize_entities: every environment that can
\* be built from configuration c
Environment(c) ==
    { [ step_count |-> 0,
        ants |-> [ i \in 1 .. c.initial_ants |-> Ant(ap[i]) ],
        plants |-> [ i \in 1 .. c.initial_plants |-> Plant(pp[i]) ],
        fungi |-> [ i \in 1 .. c.initial_fungi |-> Fungus(fp[i]) ],
        parasites |-> [ i \in 1 .. c.initial_parasites |-> Parasite(sp[i], VIRULENCE_ONE) ],
        predators |-> [ i \in 1 .. c.initial_predators |-> Predator(dp[i]) ],
        current_climate |-> "dry", climate_timer |-> 0, metrics |-> EmptyMetrics ] :
      ap \in Placements(c.initial_ants, InitCells),
      pp \in Placements(c.initial_plants, InitCells),
      fp \in Placements(c.initial_fungi, InitCells),
      sp \in Placements(c.initial_parasites, InitCells),
      dp \in Placements(c.initial_predators, InitCells) }

\* one layer of render_grid: every active entity of the list writes its symbol
RECURSIVE PlaceLayer(_, _, _, _)
PlaceLayer(grid, list, sym, k) ==
    IF k > Len(list) THEN grid
    ELSE PlaceLayer(IF list[k].active
                    THEN [ grid EXCEPT ![list[k].position[1] + 1][list[k].position[2] + 1] = sym ]
                    ELSE grid,
                    list, sym, k + 1)

\* a rendering whose layers are laid in the reverse order, plants on top
render_grid_PlantsOnTop(g, P, F, S, D, A) ==
    LET g0 == [ x \in 1 .. g |-> [ y \in 1 .. g |-> TILE_EMPTY ] ]
        g1 == PlaceLayer(g0, A, TILE_ANT, 1)
        g2 == PlaceLayer(g1, D, TILE_PREDATOR, 1)
        g3 == PlaceLayer(g2, S, TILE_PARASITE, 1)
        g4 == PlaceLayer(g3, F, TILE_FUNGUS, 1)
    IN  PlaceLayer(g4, P, TILE_PLANT, 1)

\* render_grid: the rows of the grid, row x holding the symbols of cells (x, 0..)
render_grid(g, P, F, S, D, A) ==
    LET g0 == [ x \in 1 .. g |-> [ y \in 1 .. g |-> TILE_EMPTY ] ]
        g1 == PlaceLayer(g0, P, TILE_PLANT, 1)
        g2 == PlaceLayer(g1, F, TILE_FUNGUS, 1)
        g3 == PlaceLayer(g2, S, TILE_PARASITE, 1)
        g4 == PlaceLayer(g3, D, TILE_PREDATOR, 1)
    IN  PlaceLayer(g4, A, TILE_ANT, 1)

Grid == render_grid(config.grid_size, plants, fungi, parasites, predators, ants)
GridNext == render_grid(config.grid_size, plants', fungi', parasites', predators', ants')

\* ---------------------------------------------------------------- Simulation
\* _check_extinction with the viability limit off by one (total_entities < 2)
check_extinction_OffByOne ==
    \/ Len(ants) = 0
    \/ Len(ants) + Len(plants) + Len(fungi) < MIN_VIABLE - 1

\* _check_extinction without the barren-ecosystem test
check_extinction_AntsOnly == Len(ants) = 0

\* Simulation._check_extinction
check_extinction ==
    \/ Len(ants) = 0
    \/ Len(ants) + Len(plants) + Len(fungi) < MIN_VIABLE

\* Simulation.__init__
Init ==
    /\ config \in Configs
    /\ \E e \in Environment(config) :
          /\ step_count = e.step_count
          /\ ants = e.ants /\ plants = e.plants /\ fungi = e.fungi
          /\ parasites = e.parasites /\ predators = e.predators
          /\ current_climate = e.current_climate
          /\ climate_timer = e.climate_timer
          /\ metrics = e.metrics
    /\ is_running = FALSE
    /\ current_step = 0
    /\ pc = Idle
    /\ caller = None
    /\ gen = NoGen
    /\ op = "init"
    /\ raised = FALSE
    /\ result = NoResult
    /\ entry = NoEntry
    /\ calls = 0
    /\ stopped = FALSE
    /\ draw = NoDraw
    /\ args = NoArgs

\* a driver method is entered: nothing else is running
Call(name) ==
    /\ pc = Idle
    /\ calls < MaxCalls
    /\ calls' = calls + 1
    /\ op' = name
    /\ raised' = FALSE
    /\ draw' = NoDraw
    /\ UNCHANGED args

\* self.environment.step() is entered from driver method m
EnterStep(m) ==
    /\ step_count < MaxTicks
    /\ pc' = At("step")
    /\ caller' = m
    /\ entry' = [ current_step |-> current_step, step_count |-> step_count,
                  lens |-> << Len(plants), Len(fungi), Len(parasites), Len(predators),
                              Len(ants) >> ]
    /\ result' = NoResult
    /\ UNCHANGED << env, config, current_step >>

\* Simulation.step_once up to the call of environment.step()
step_once ==
    /\ Call("step_once")
    /\ UNCHANGED stopped
    /\ is_running' = TRUE
    /\ gen' = Interleaved(gen)
    /\ IF current_step < config.simulation_steps /\ ~check_extinction
       THEN EnterStep("step_once")
       ELSE /\ result' = Rendered(Grid)
            /\ UNCHANGED << env, config, current_step, pc, caller, entry >>

\* Simulation.step_once after environment.step() returned
step_once_return ==
    /\ pc = At("return")
    /\ caller = "step_once"
    /\ current_step' = current_step + 1
    /\ result' = Rendered(Grid)
    /\ pc' = Idle
    /\ caller' = None
    /\ entry' = NoEntry
    /\ draw' = NoDraw
    /\ UNCHANGED << env, config, is_running, gen, op, raised, calls, stopped, args >>

\* Simulation.run is called: a generator object is made, no code of run runs yet
run ==
    /\ Call("run")
    /\ UNCHANGED stopped
    /\ \E m \in {DefaultSteps} \cup (0 .. MaxRunArg) :
          gen' = [ state |-> "created",
                   max_steps |-> IF m = DefaultSteps THEN config.simulation_steps ELSE m,
                   yields |-> 0, ticks |-> 0, alone |-> TRUE ]
    /\ result' = GeneratorObject
    /\ UNCHANGED << env, driver, pc, caller, entry >>

\* the loop test of run without the running flag
run_loop_condition_NoFlag == current_step < gen.max_steps

\* Simulation.run: `while self.is_running and self.current_step < max_steps`
run_loop_condition == is_running /\ current_step < gen.max_steps

\* the generator is resumed: from its start to the first yield, or from a yield
\* through the loop test and the extinction test
next ==
    /\ gen.state \in {"created", "suspended"}
    /\ Call("next")
    /\ UNCHANGED stopped
    /\ IF gen.state = "created"
       THEN /\ is_running' = TRUE
            /\ current_step' = 0
            /\ result' = Rendered(Grid)
            /\ gen' = [ gen EXCEPT !.state = "suspended", !.yields = 1 ]
            /\ UNCHANGED << env, config, pc, caller, entry >>
       ELSE IF run_loop_condition /\ ~check_extinction
       THEN /\ EnterStep("run")
            /\ UNCHANGED << is_running, gen >>
       ELSE /\ gen' = [ gen EXCEPT !.state = "done" ]
            /\ result' = NoResult
            /\ UNCHANGED << env, driver, pc, caller, entry >>

\* Simulation.run after environment.step() returned: count the step and yield
run_yield ==
    /\ pc = At("return")
    /\ caller = "run"
    /\ current_step' = current_step + 1
    /\ result' = Rendered(Grid)
    /\ gen' = [ gen EXCEPT !.yields = @ + 1, !.ticks = @ + 1 ]
    /\ pc' = Idle
    /\ caller' = None
    /\ entry' = NoEntry
    /\ draw' = NoDraw
    /\ UNCHANGED << env, config, is_running, op, raised, calls, stopped, args >>

\* stop that also rewinds the step counter
stop_RewindsStep ==
    /\ Call("stop")
    /\ stopped' = (stopped \/ is_running)
    /\ is_running' = FALSE
    /\ current_step' = 0
    /\ gen' = Interleaved(gen)
    /\ result' = NoResult
    /\ UNCHANGED << env, config, pc, caller, entry >>

\* Simulation.stop
stop ==
    /\ Call("stop")
    /\ stopped' = (stopped \/ is_running)
    /\ is_running' = FALSE
    /\ gen' = Interleaved(gen)
    /\ result' = NoResult
    /\ UNCHANGED << env, config, current_step, pc, caller, entry >>

\* reset that keeps the environment it has
reset_KeepsEnvironment ==
    /\ Call("reset")
    /\ stopped' = FALSE
    /\ is_running' = FALSE
    /\ current_step' = 0
    /\ gen' = Interleaved(gen)
    /\ result' = NoResult
    /\ UNCHANGED << env, config, pc, caller, entry >>

\* Simulation.reset
reset ==
    /\ Call("reset")
    /\ stopped' = FALSE
    /\ \E e \in Environment(config) :
          /\ step_count' = e.step_count
          /\ ants' = e.ants /\ plants' = e.plants /\ fungi' = e.fungi
          /\ parasites' = e.parasites /\ predators' = e.predators
          /\ current_climate' = e.current_climate
          /\ climate_timer' = e.climate_timer
          /\ metrics' = e.metrics
    /\ is_running' = FALSE
    /\ current_step' = 0
    /\ gen' = Interleaved(gen)
    /\ result' = NoResult
    /\ UNCHANGED << config, pc, caller, entry >>


\* ------------------------------------------------------- Environment.step()
\* what a phase of step() leaves alone outside the environment
TickFrame == UNCHANGED << driver, caller, gen, op, raised, result, entry, calls, stopped, args >>

\* _update_entities: the loop position that follows, given the lengths of the
\* five collections.  A collection's snapshot (entity_list[:]) is taken when
\* its turn starts; entities are only ever appended during the phase, so the
\* snapshot is the collection's first n entries.
RECURSIVE UpdFrom(_, _)
UpdFrom(l, lens) ==
    IF l > 5 THEN At("cleanup")
    ELSE IF lens[l] > 0 THEN [ phase |-> "update", list |-> l, i |-> 1, n |-> lens[l] ]
    ELSE UpdFrom(l + 1, lens)

LensNext == << Len(plants'), Len(fungi'), Len(parasites'), Len(predators'), Len(ants') >>

\* a loop over the collection itself, not over its snapshot: entities appended
\* during the collection's turn are reached as well
Advance_LiveList ==
    pc' = IF pc.i < LensNext[pc.list] THEN [ pc EXCEPT !.i = @ + 1, !.n = LensNext[pc.list] ]
          ELSE UpdFrom(pc.list + 1, LensNext)

\* the loop moves on to the next entity of the snapshot, or to the next collection
Advance == pc' = IF pc.i < pc.n THEN [ pc EXCEPT !.i = @ + 1 ] ELSE UpdFrom(pc.list + 1, LensNext)

ListOf(l) ==
    CASE l = 1 -> plants [] l = 2 -> fungi [] l = 3 -> parasites
      [] l = 4 -> predators [] l = 5 -> ants

\* the loop of _update_entities stands at an active entity of collection l
Updating(l) == pc.phase = "update" /\ pc.list = l /\ ListOf(l)[pc.i].active

\* Environment.step: the step counter
Environment_step ==
    /\ pc = At("step")
    /\ draw' = NoDraw
    /\ step_count' = step_count + 1
    /\ pc' = At("climate")
    /\ TickFrame
    /\ UNCHANGED << ants, plants, fungi, parasites, predators, current_climate,
                    climate_timer, metrics >>

\* a climate update that flips only once the timer has passed cycle_length
update_climate_LateFlip ==
    /\ pc = At("climate")
    /\ draw' = NoDraw
    /\ IF climate_timer + 1 > config.cycle_length
       THEN /\ current_climate' = IF current_climate = "dry" THEN "rain" ELSE "dry"
            /\ climate_timer' = 0
       ELSE /\ climate_timer' = climate_timer + 1
            /\ UNCHANGED current_climate
    /\ UNCHANGED << step_count, ants, plants, fungi, parasites, predators, metrics >>
    /\ pc' = UpdFrom(1, LensNext)
    /\ TickFrame

\* Environment._update_climate, then the entity loop starts
update_climate ==
    /\ pc = At("climate")
    /\ draw' = NoDraw
    /\ IF climate_timer + 1 >= config.cycle_length
       THEN /\ current_climate' = IF current_climate = "dry" THEN "rain" ELSE "dry"
            /\ climate_timer' = 0
       ELSE /\ climate_timer' = climate_timer + 1
            /\ UNCHANGED current_climate
    /\ UNCHANGED << step_count, ants, plants, fungi, parasites, predators, metrics >>
    /\ pc' = UpdFrom(1, LensNext)
    /\ TickFrame

\* _update_entities: `if entity.active` is false, the entity is passed over
skip_inactive ==
    /\ pc.phase = "update"
    /\ draw' = NoDraw
    /\ ~ListOf(pc.list)[pc.i].active
    /\ UNCHANGED env
    /\ Advance
    /\ TickFrame

\* Plant.update
Plant_update ==
    /\ Updating(1)
    /\ draw' = NoDraw
    /\ plants' = [ plants EXCEPT ![pc.i].maturity =
                      IF @ < PLANT_MATURITY THEN Min(PLANT_MATURITY, @ + 1) ELSE @ ]
    /\ UNCHANGED << step_count, ants, fungi, parasites, predators, current_climate,
                    climate_timer, metrics >>
    /\ Advance
    /\ TickFrame

\* an exception leaves Environment.step() and the driver method that called it;
\* a generator that raises is finished
Raise ==
    /\ pc' = Idle
    /\ raised' = TRUE
    /\ result' = NoResult
    /\ caller' = None
    /\ entry' = NoEntry
    /\ gen' = IF caller = "run" THEN [ gen EXCEPT !.state = "failed" ] ELSE gen
    /\ UNCHANGED << driver, op, calls, stopped, args >>

\* Fungus.update.  A fungus with health > 0.4 calls
\* environment.get_nearby_entities, a method Environment does not define: the
\* call raises AttributeError.
Fungus_update ==
    /\ Updating(2)
    /\ draw' = NoDraw
    /\ UNCHANGED << step_count, ants, plants, parasites, predators, current_climate,
                    climate_timer, metrics >>
    /\ LET aged == [ fungi[pc.i] EXCEPT !.age = @ + 1 ]
           grown == IF aged.age < GROWTH_AGE /\ aged.nutrition_value < GROWTH_CAP
                    THEN [ aged EXCEPT !.nutrition_value = @ + GROWTH_STEP ]
                    ELSE aged
       IN  IF aged.age >= FUNGUS_MAX_AGE
           THEN /\ fungi' = [ fungi EXCEPT ![pc.i] = deactivate(aged) ]
                /\ Advance
                /\ TickFrame
           ELSE /\ fungi' = [ fungi EXCEPT ![pc.i] = grown ]
                /\ IF grown.health > SUPPRESS_ABOVE
                   THEN Raise
                   ELSE Advance /\ TickFrame

\* every neighbour, whether a parasite is there or not
available_neighbors_Any(p) == SeqSet(get_neighbors(p.position, config.grid_size))

\* Parasite._attempt_spread: the neighbours no parasite of the collection is at
available_neighbors(p) ==
    { pos \in SeqSet(get_neighbors(p.position, config.grid_size)) :
        \A k \in DOMAIN parasites : ~is_at_position(parasites[k], pos) }

\* Parasite.update with _attempt_spread
Parasite_update ==
    /\ Updating(3)
    /\ UNCHANGED << step_count, ants, plants, fungi, predators, current_climate,
                    climate_timer, metrics >>
    /\ LET aged == [ parasites[pc.i] EXCEPT !.age = @ + 1 ]
           decay(q) == IF q.age > VIRULENCE_DECAY_AGE
                       THEN [ q EXCEPT !.virulence = Max(VIRULENCE_FLOOR, (@ * 99) \div 100) ]
                       ELSE q
           child(pos) == Parasite(pos, Max(VIRULENCE_CHILD_MIN, (aged.virulence * 8) \div 10))
       IN  IF aged.age >= PARASITE_MAX_AGE
           THEN /\ parasites' = [ parasites EXCEPT ![pc.i] = deactivate(aged) ]
                /\ draw' = NoDraw
           ELSE IF aged.spread_attempts >= MAX_SPREAD_ATTEMPTS
           THEN /\ parasites' = [ parasites EXCEPT ![pc.i] = decay(aged) ]
                /\ draw' = NoDraw
           ELSE \/ /\ parasites' = [ parasites EXCEPT ![pc.i] = decay(aged) ]
                   /\ draw' = Draw("miss", << >>)
                \/ /\ config.spread
                   /\ available_neighbors(aged) = {}
                   /\ parasites' = [ parasites EXCEPT ![pc.i] = decay(aged) ]
                   /\ draw' = Draw("hit", << >>)
                \/ /\ config.spread
                   /\ \E pos \in available_neighbors(aged) :
                         /\ parasites' = Append(
                               [ parasites EXCEPT ![pc.i] =
                                    decay([ aged EXCEPT !.spread_attempts = @ + 1 ]) ],
                               child(pos))
                         /\ draw' = Draw("hit", pos)
    /\ Advance
    /\ TickFrame

\* Predator._find_nearby_ants: the indices of the active ants within hunt_range
find_nearby_ants(pos, A) ==
    { k \in DOMAIN A : A[k].active /\ manhattan_distance(pos, A[k].position) <= HUNT_RANGE }

\* the first ant of the collection within hunt_range, however near the others are
closest_ant_FirstInRange(pos, A) ==
    CHOOSE k \in find_nearby_ants(pos, A) : \A j \in find_nearby_ants(pos, A) : k <= j

\* min(nearby_ants, key=distance): the first of the nearest, in collection order
closest_ant(pos, A) ==
    LET near == find_nearby_ants(pos, A)
        best == { k \in near : \A j \in near :
                     manhattan_distance(pos, A[k].position) <= manhattan_distance(pos, A[j].position) }
    IN  CHOOSE k \in best : \A j \in best : k <= j

Sign(n) == IF n = 0 THEN 0 ELSE IF n > 0 THEN 1 ELSE -1

\* a meal whose energy is added without the cap
gain_energy_Uncapped(energy) == energy + MEAL_ENERGY

\* Predator._hunt: min(self.max_energy, self.energy + 30)
gain_energy(energy) == Min(PREDATOR_MAX_ENERGY, energy + MEAL_ENERGY)

\* Predator.update with _hunt and _move
Predator_update ==
    /\ Updating(4)
    /\ UNCHANGED << step_count, plants, fungi, parasites, current_climate,
                    climate_timer, metrics >>
    /\ LET d == predators[pc.i]
           e1 == d.energy - ENERGY_DECAY_RATE
       IN  IF e1 <= 0
           THEN /\ predators' = [ predators EXCEPT ![pc.i] = deactivate([ d EXCEPT !.energy = e1 ]) ]
                /\ UNCHANGED ants
                /\ draw' = NoDraw
           ELSE \E kill \in (IF find_nearby_ants(d.position, ants) # {} THEN BOOLEAN ELSE {FALSE}) :
                  LET A1 == IF kill
                            THEN [ ants EXCEPT ![closest_ant(d.position, ants)] = deactivate(@) ]
                            ELSE ants
                      e2 == IF kill THEN gain_energy(e1) ELSE e1
                      steps == IF find_nearby_ants(d.position, A1) # {}
                               THEN LET t == A1[closest_ant(d.position, A1)].position
                                    IN  { << Sign(t[1] - d.position[1]), Sign(t[2] - d.position[2]) >> }
                               ELSE Direction
                  IN  /\ ants' = A1
                      /\ \E delta \in steps :
                            /\ predators' = [ predators EXCEPT ![pc.i] =
                                  [ d EXCEPT !.energy = e2,
                                             !.position = clamp_position(
                                                 << d.position[1] + delta[1], d.position[2] + delta[2] >>,
                                                 config.grid_size) ] ]
                            /\ draw' = Draw(IF find_nearby_ants(d.position, ants) = {} THEN "none"
                                            ELSE IF kill THEN "hit" ELSE "miss",
                                            IF find_nearby_ants(d.position, A1) # {} THEN << >>
                                            ELSE delta)
    /\ Advance
    /\ TickFrame

\* Ant.update that harvests whichever plant of the cell it comes upon first, in
\* an order the random source does not decide
Ant_update_AnyPlantHere ==
    /\ Updating(5)
    /\ UNCHANGED << step_count, parasites, predators, current_climate, climate_timer, metrics >>
    /\ LET a == ants[pc.i]
           threat(pos) ==
               \/ \E k \in DOMAIN predators : is_at_position(predators[k], pos)
               \/ \E k \in DOMAIN parasites : is_at_position(parasites[k], pos)
       IN  IF threat(a.position)
           THEN /\ ants' = [ ants EXCEPT ![pc.i] = deactivate(a) ]
                /\ UNCHANGED << plants, fungi >>
                /\ draw' = NoDraw
           ELSE \E delta \in Direction :
                  LET np == clamp_position(<< a.position[1] + delta[1], a.position[2] + delta[2] >>,
                                           config.grid_size)
                      moved == [ a EXCEPT !.position = np ]
                      plants_here == { k \in DOMAIN plants : is_at_position(plants[k], np) }
                  IN  /\ draw' = Draw("none", delta)
                      /\ IF threat(np)
                         THEN /\ ants' = [ ants EXCEPT ![pc.i] = deactivate(moved) ]
                              /\ UNCHANGED << plants, fungi >>
                         ELSE /\ ants' = [ ants EXCEPT ![pc.i] = moved ]
                              /\ IF plants_here # {}
                                 THEN /\ \E k \in plants_here :
                                            plants' = [ plants EXCEPT ![k] = deactivate(@) ]
                                      /\ fungi' = Append(fungi, Fungus(np))
                                 ELSE UNCHANGED << plants, fungi >>
    /\ Advance
    /\ TickFrame

\* a threat check that looks at the predators only
check_for_threats_PredatorsOnly(pos) ==
    \E k \in DOMAIN predators : is_at_position(predators[k], pos)

\* Ant._check_for_threats: a predator or a parasite of the collections is at pos
check_for_threats(pos) ==
    \/ \E k \in DOMAIN predators : is_at_position(predators[k], pos)
    \/ \E k \in DOMAIN parasites : is_at_position(parasites[k], pos)

\* Ant.update with _interact_with_environment
Ant_update ==
    /\ Updating(5)
    /\ UNCHANGED << step_count, parasites, predators, current_climate, climate_timer, metrics >>
    /\ LET a == ants[pc.i]
       IN  IF check_for_threats(a.position)
           THEN /\ ants' = [ ants EXCEPT ![pc.i] = deactivate(a) ]
                /\ UNCHANGED << plants, fungi >>
                /\ draw' = NoDraw
           ELSE \E delta \in Direction :
                  LET np == clamp_position(<< a.position[1] + delta[1], a.position[2] + delta[2] >>,
                                           config.grid_size)
                      moved == [ a EXCEPT !.position = np ]
                      plants_here == { k \in DOMAIN plants : is_at_position(plants[k], np) }
                  IN  /\ draw' = Draw("none", delta)
                      /\ IF check_for_threats(np)
                         THEN /\ ants' = [ ants EXCEPT ![pc.i] = deactivate(moved) ]
                              /\ UNCHANGED << plants, fungi >>
                         ELSE /\ ants' = [ ants EXCEPT ![pc.i] = moved ]
                              /\ IF plants_here # {}
                                 THEN /\ plants' = [ plants EXCEPT
                                            ![CHOOSE k \in plants_here : \A j \in plants_here : k <= j] =
                                               deactivate(@) ]
                                      /\ fungi' = Append(fungi, Fungus(np))
                                 ELSE UNCHANGED << plants, fungi >>
    /\ Advance
    /\ TickFrame


\* a cleanup that filters nothing
ActiveOnly_KeepsAll(list) == list

\* the entities of a collection that are active, in their order
ActiveOnly(list) == SelectSeq(list, LAMBDA e : e.active)

\* Environment._cleanup_entities
cleanup_entities ==
    /\ pc = At("cleanup")
    /\ draw' = NoDraw
    /\ ants' = ActiveOnly(ants)
    /\ plants' = ActiveOnly(plants)
    /\ fungi' = ActiveOnly(fungi)
    /\ parasites' = ActiveOnly(parasites)
    /\ predators' = ActiveOnly(predators)
    /\ UNCHANGED << step_count, current_climate, climate_timer, metrics >>
    /\ pc' = At("regen")
    /\ TickFrame

Positions(list) == { list[k].position : k \in DOMAIN list }

\* a regeneration that takes the first cell it draws, occupied or not
plant_regeneration_AnyCell ==
    /\ pc = At("regen")
    /\ UNCHANGED << step_count, ants, fungi, parasites, predators, current_climate,
                    climate_timer, metrics >>
    /\ IF step_count % config.interval # 0 \/ Len(plants) >= config.max_plants
       THEN UNCHANGED plants /\ draw' = NoDraw
       ELSE \/ UNCHANGED plants /\ draw' = Draw("miss", << >>)
            \/ /\ config.regen
               /\ \E pos \in Cells(config.grid_size) :
                     /\ plants' = Append(plants, Plant(pos))
                     /\ draw' = Draw("hit", pos)
    /\ pc' = At("repro")
    /\ TickFrame

\* Environment._plant_regeneration.  Up to REGEN_ATTEMPTS cells are drawn: the
\* plant goes to the first one that is unoccupied, and none is placed when all
\* of them are occupied.
plant_regeneration ==
    /\ pc = At("regen")
    /\ UNCHANGED << step_count, ants, fungi, parasites, predators, current_climate,
                    climate_timer, metrics >>
    /\ IF step_count % config.interval # 0 \/ Len(plants) >= config.max_plants
       THEN UNCHANGED plants /\ draw' = NoDraw
       ELSE LET occupied_positions ==
                    Positions(ants) \cup Positions(plants) \cup Positions(fungi)
                       \cup Positions(parasites) \cup Positions(predators)
            IN  \/ UNCHANGED plants /\ draw' = Draw("miss", << >>)
                \/ /\ config.regen
                   /\ occupied_positions # {}
                   /\ UNCHANGED plants
                   /\ draw' = Draw("hit", << >>)
                \/ /\ config.regen
                   /\ \E pos \in Cells(config.grid_size) \ occupied_positions :
                         /\ plants' = Append(plants, Plant(pos))
                         /\ draw' = Draw("hit", pos)
    /\ pc' = At("repro")
    /\ TickFrame

\* a fungus that counts as consumable as long as anything is left of it
can_be_consumed_AnyNutrition(f) == f.nutrition_value > 0

\* Fungus.can_be_consumed
can_be_consumed(f) == f.nutrition_value > CONSUMABLE_ABOVE

\* sum(fungus.nutrition_value for fungus in fungi if keep(fungus))
RECURSIVE SumNutrition(_, _, _)
SumNutrition(F, k, consumableOnly) ==
    IF k > Len(F) THEN 0
    ELSE (IF consumableOnly /\ ~can_be_consumed(F[k]) THEN 0 ELSE F[k].nutrition_value)
         + SumNutrition(F, k + 1, consumableOnly)

\* the consumption loop of _ant_reproduction from fungus k on, food_needed left
RECURSIVE Consume(_, _, _)
Consume(F, k, food_needed) ==
    IF k > Len(F) \/ food_needed <= 0 THEN F
    ELSE IF can_be_consumed(F[k])
    THEN LET consumed == Min(food_needed, F[k].nutrition_value)
         IN  Consume(IF consumed >= F[k].nutrition_value
                     THEN [ F EXCEPT ![k] = deactivate(@) ]
                     ELSE [ F EXCEPT ![k].nutrition_value = @ - consumed ],
                     k + 1, food_needed - consumed)
    ELSE Consume(F, k + 1, food_needed)

\* Environment._ant_reproduction up to the loop that adds the new ants
ant_reproduction ==
    /\ pc = At("repro")
    /\ draw' = NoDraw
    /\ UNCHANGED << step_count, ants, plants, parasites, predators, current_climate,
                    climate_timer, metrics >>
    /\ IF /\ step_count % config.larvae_period = 0
          /\ SumNutrition(fungi, 1, TRUE) >= 10 * config.food_threshold
       THEN /\ fungi' = Consume(fungi, 1, 10 * config.food_threshold)
            /\ pc' = [ phase |-> "larvae", list |-> 0, i |-> 0, n |-> config.larvae_per_cycle ]
       ELSE /\ UNCHANGED fungi
            /\ pc' = At("spawn")
    /\ TickFrame

\* _ant_reproduction: one pass of `for _ in range(new_ant_count)`
add_larva ==
    /\ pc.phase = "larvae"
    /\ UNCHANGED << step_count, plants, fungi, parasites, predators, current_climate,
                    climate_timer, metrics >>
    /\ LET occupied == Positions(plants) \cup Positions(fungi) \cup Positions(parasites)
                          \cup Positions(predators)
           near(parent) == (SeqSet(get_neighbors(parent.position, config.grid_size))
                               \cup {parent.position}) \ occupied
           new_positions ==
               IF Len(ants) > 0
               THEN UNION { IF near(ants[k]) # {} THEN near(ants[k]) ELSE Cells(config.grid_size) :
                            k \in DOMAIN ants }
               ELSE Cells(config.grid_size)
       IN  \E new_pos \in new_positions :
              /\ ants' = Append(ants, Ant(new_pos))
              /\ draw' = Draw("none", new_pos)
    /\ pc' = IF pc.n > 1 THEN [ pc EXCEPT !.n = @ - 1 ] ELSE At("spawn")
    /\ TickFrame

\* _predator_spawning: max(1, current_ants // target_ratio)
target_predators(current_ants, target_ratio) ==
    Max(1, (current_ants * target_ratio[2]) \div target_ratio[1])

\* a multiplier that damps when predators are missing and boosts when there are
\* too many
spawn_multiplier_Swapped(current_predators, target) ==
    IF current_predators < target THEN << 3, 10 >>
    ELSE IF current_predators > target THEN << 3, 2 >>
    ELSE << 1, 1 >>

\* _predator_spawning: the multiplier before the climate effect, 1.5, 0.3 or 1.0
spawn_multiplier(current_predators, target) ==
    IF current_predators < target THEN << 3, 2 >>
    ELSE IF current_predators > target THEN << 3, 10 >>
    ELSE << 1, 1 >>

\* _predator_spawning: the multiplier after the climate effect
climate_spawn_multiplier(c, climate, current_ants, current_predators) ==
    FMul(spawn_multiplier(current_predators, target_predators(current_ants, c.target_ratio)),
         IF climate = "rain" THEN c.rain_spawn_reduction ELSE c.dry_spawn_increase)

\* _predator_spawning: base_spawn_chance * spawn_multiplier
final_spawn_chance(c, climate, current_ants, current_predators) ==
    FMul(c.base_spawn_chance, climate_spawn_multiplier(c, climate, current_ants, current_predators))

\* Environment._predator_spawning
predator_spawning ==
    /\ pc = At("spawn")
    /\ UNCHANGED << step_count, ants, plants, fungi, parasites, current_climate,
                    climate_timer, metrics >>
    /\ IF Len(ants) = 0
       THEN UNCHANGED predators /\ draw' = NoDraw
       ELSE \/ UNCHANGED predators /\ draw' = Draw("miss", << >>)
            \/ /\ final_spawn_chance(config, current_climate, Len(ants), Len(predators))[1] > 0
               /\ \E pos \in Cells(config.grid_size) :
                     /\ predators' = Append(predators, Predator(pos))
                     /\ draw' = Draw("hit", pos)
    /\ pc' = At("metrics")
    /\ TickFrame

\* Environment._update_metrics; step() returns to its caller
update_metrics ==
    /\ pc = At("metrics")
    /\ draw' = NoDraw
    /\ metrics' = [ step |-> Append(metrics.step, step_count),
                    ant_count |-> Append(metrics.ant_count, Len(ants)),
                    plant_count |-> Append(metrics.plant_count, Len(plants)),
                    fungus_count |-> Append(metrics.fungus_count, Len(fungi)),
                    parasite_count |-> Append(metrics.parasite_count, Len(parasites)),
                    predator_count |-> Append(metrics.predator_count, Len(predators)),
                    food_stock |-> Append(metrics.food_stock, SumNutrition(fungi, 1, FALSE)),
                    climate |-> Append(metrics.climate, current_climate) ]
    /\ UNCHANGED << step_count, ants, plants, fungi, parasites, predators,
                    current_climate, climate_timer >>
    /\ pc' = At("return")
    /\ TickFrame

\* ------------------------------------------------------------ specification
Next ==
    \/ step_once \/ step_once_return
    \/ run \/ next \/ run_yield
    \/ stop \/ reset
    \/ Environment_step \/ update_climate
    \/ skip_inactive
    \/ Plant_update \/ Fungus_update \/ Parasite_update \/ Predator_update \/ Ant_update
    \/ cleanup_entities \/ plant_regeneration
    \/ ant_reproduction \/ add_larva
    \/ predator_spawning \/ update_metrics

Spec == Init /\ [][Next]_vars


\* ------------------------------------------------------------ status snapshot
\* Environment.get_entity_counts
get_entity_counts ==
    [ ants |-> Len(ants), plants |-> Len(plants), fungi |-> Len(fungi),
      parasites |-> Len(parasites), predators |-> Len(predators) ]

\* Simulation.get_status: 'total_food'
total_food == SumNutrition(fungi, 1, FALSE)

\* a risk label that looks at the ant count only
calculate_extinction_risk_AntsOnly ==
    IF Len(ants) = 0 THEN "Extinct"
    ELSE IF Len(ants) <= 3 THEN "Critical"
    ELSE IF Len(ants) <= 10 THEN "High"
    ELSE IF Len(ants) <= 20 THEN "Medium"
    ELSE "Low"

\* Simulation._calculate_extinction_risk
calculate_extinction_risk ==
    IF Len(ants) = 0 THEN "Extinct"
    ELSE IF Len(ants) <= 3 THEN "Critical"
    ELSE IF Len(ants) <= 10 \/ Len(predators) > Len(ants) \div 2 THEN "High"
    ELSE IF Len(fungi) = 0 /\ Len(plants) = 0 THEN "High"
    ELSE IF Len(ants) <= 20 THEN "Medium"
    ELSE "Low"

\* Simulation.get_status
get_status ==
    [ step |-> current_step,
      max_steps |-> config.simulation_steps,
      is_running |-> is_running,
      climate |-> current_climate,
      climate_timer |-> climate_timer,
      entity_counts |-> get_entity_counts,
      total_food |-> total_food,
      extinction_risk |-> calculate_extinction_risk,
      progress_percent |-> Frac(current_step * 100, config.simulation_steps) ]

\* ------------------------------------------------------------ render_grid text
\* a join of the rows that puts no line break between them
join_rows_NoBreaks(grid) ==
    LET RECURSIVE from(_)
        from(x) == IF x > Len(grid) THEN << >> ELSE grid[x] \o from(x + 1)
    IN  from(1)

\* "\n".join("".join(row) for row in grid): the symbols of the rows one after
\* another, with a line break between one row and the next
join_rows(grid) ==
    LET RECURSIVE from(_)
        from(x) == IF x > Len(grid) THEN << >>
                   ELSE grid[x] \o (IF x < Len(grid) THEN << "\n" >> ELSE << >>) \o from(x + 1)
    IN  from(1)

\* what Environment.render_grid returns: the text of the grid
render_text(g, P, F, S, D, A) == join_rows(render_grid(g, P, F, S, D, A))

\* ------------------------------------------------------------------ balance.py
\* EcosystemBalance._calculate_population_health, optimal_range = (20, 60)
calculate_population_health(ant_count) ==
    IF ant_count = 0 THEN Frac(0, 1)
    ELSE IF ant_count < 20 THEN Frac(ant_count, 20)
    ELSE IF ant_count <= 60 THEN Frac(1, 1)
    ELSE FSub(Frac(1, 1), FMin(Frac(1, 2), Frac(ant_count - 60, 60)))

\* EcosystemBalance._calculate_food_health, optimal_food = 30
calculate_food_health(plant_count, fungus_count) ==
    IF plant_count + fungus_count = 0 THEN Frac(0, 1)
    ELSE IF plant_count + fungus_count < 30 THEN Frac(plant_count + fungus_count, 30)
    ELSE Frac(1, 1)

\* _calculate_predator_balance without the floor at 0.0
calculate_predator_balance_NoFloor(ant_count, predator_count, target_ratio) ==
    IF ant_count = 0 THEN (IF predator_count = 0 THEN Frac(1, 1) ELSE Frac(0, 1))
    ELSE IF predator_count = 0 THEN Frac(4, 5)
    ELSE FSub(Frac(1, 1),
              FDiv(FAbs(FSub(Frac(ant_count, predator_count), target_ratio)), target_ratio))

\* EcosystemBalance._calculate_predator_balance
calculate_predator_balance(ant_count, predator_count, target_ratio) ==
    IF ant_count = 0 THEN (IF predator_count = 0 THEN Frac(1, 1) ELSE Frac(0, 1))
    ELSE IF predator_count = 0 THEN Frac(4, 5)
    ELSE FMax(Frac(0, 1),
              FSub(Frac(1, 1),
                   FDiv(FAbs(FSub(Frac(ant_count, predator_count), target_ratio)),
                        target_ratio)))

\* EcosystemBalance._calculate_parasite_impact
calculate_parasite_impact(ant_count, parasite_count) ==
    IF ant_count = 0 THEN Frac(0, 1)
    ELSE IF parasite_count = 0 THEN Frac(1, 1)
    ELSE IF FLeq(Frac(parasite_count, ant_count), Frac(1, 5))
    THEN FSub(Frac(1, 1), FMul(Frac(parasite_count, ant_count), Frac(1, 2)))
    ELSE FMax(Frac(0, 1), FSub(Frac(1, 1), Frac(parasite_count, ant_count)))

\* EcosystemBalance._calculate_diversity_health
calculate_diversity_health(ant_count, plant_count, fungus_count, parasite_count, predator_count) ==
    LET types_present ==
            Cardinality({ k \in 1 .. 5 :
               << ant_count, plant_count, fungus_count, parasite_count, predator_count >>[k] > 0 })
    IN  IF types_present >= 4 THEN Frac(1, 1)
        ELSE IF types_present >= 3 THEN Frac(4, 5)
        ELSE IF types_present >= 2 THEN Frac(1, 2)
        ELSE Frac(0, 1)

\* EcosystemBalance.analyze_ecosystem_health on an environment with the
\* collections A (ants), P, F, S (parasites) and D (predators)
analyze_ecosystem_health(c, A, P, F, S, D) ==
    LET population_health == calculate_population_health(Len(A))
        food_health == calculate_food_health(Len(P), Len(F))
        predator_health == calculate_predator_balance(Len(A), Len(D), c.target_ratio)
        parasite_health == calculate_parasite_impact(Len(A), Len(S))
        diversity_health == calculate_diversity_health(Len(A), Len(P), Len(F), Len(S), Len(D))
    IN  [ population |-> population_health,
          food |-> food_health,
          predator_balance |-> predator_health,
          parasite_impact |-> parasite_health,
          diversity |-> diversity_health,
          overall |-> FDiv(FAdd(population_health, FAdd(food_health, FAdd(predator_health,
                               FAdd(parasite_health, diversity_health)))), Frac(5, 1)) ]

\* ------------------------------------------------------------------- config.py
\* A pydantic model validates its fields in the order of their definition.  A
\* field passes when its Field(...) constraint holds and its validator, if it
\* has one, does not raise; the validator is handed `values`, the fields
\* validated before it that passed.  The model is built when every field
\* passes; otherwise the constructor raises and builds nothing.  Fields not
\* named here are given valid values.
Built(data) == [ kind |-> "config", config |-> data ]
ValidationError == [ kind |-> "error" ]

\* PlantRegenerationConfig: interval and max_plants are Field(gt=0)
PlantRegenerationConfig(data) ==
    IF data.interval > 0 /\ data.max_plants > 0 THEN Built(data) ELSE ValidationError

\* ClimateConfig with cycle_length defined after the two durations
ClimateConfigFields_CycleLast == << "rain_duration", "dry_duration", "cycle_length" >>

\* ClimateConfig: the fields in the order of their definition
ClimateConfigFields == << "cycle_length", "rain_duration", "dry_duration" >>

\* ClimateConfig: field k of data passes (Field(gt=0), then validate_duration)
RECURSIVE ClimateConfig_passes(_, _)
ClimateConfig_passes(data, k) ==
    LET f == ClimateConfigFields[k]
        values == { ClimateConfigFields[j] :
                       j \in { i \in 1 .. k - 1 : ClimateConfig_passes(data, i) } }
    IN  /\ data[f] > 0
        /\ f \in { "rain_duration", "dry_duration" }
              => ~("cycle_length" \in values /\ data[f] > data.cycle_length)

ClimateConfig(data) ==
    IF \A k \in DOMAIN ClimateConfigFields : ClimateConfig_passes(data, k)
    THEN Built(data) ELSE ValidationError

\* SimulationConfig: the fields in the order of their definition
SimulationConfigFields ==
    << "grid_size", "simulation_steps", "initial_ants", "initial_plants", "initial_fungi",
       "initial_parasites", "initial_predators", "plant_regeneration", "climate" >>

\* the Field(...) constraints of SimulationConfig; a nested model has to be built
SimulationConfig_constraint(f, v) ==
    CASE f = "grid_size" -> v >= 5 /\ v <= 100
      [] f = "simulation_steps" -> v > 0
      [] f = "initial_ants" -> v >= 1
      [] f \in { "initial_plants", "initial_fungi", "initial_parasites", "initial_predators" } -> v >= 0
      [] f = "plant_regeneration" -> PlantRegenerationConfig(v).kind = "config"
      [] f = "climate" -> ClimateConfig(v).kind = "config"

\* SimulationConfig: field k of data passes (constraint, then validate_initial_plants)
RECURSIVE SimulationConfig_passes(_, _)
SimulationConfig_passes(data, k) ==
    LET f == SimulationConfigFields[k]
        values == { SimulationConfigFields[j] :
                       j \in { i \in 1 .. k - 1 : SimulationConfig_passes(data, i) } }
    IN  /\ SimulationConfig_constraint(f, data[f])
        /\ f = "initial_plants"
              => ~("plant_regeneration" \in values /\ data[f] > data.plant_regeneration.max_plants)

SimulationConfig(data) ==
    IF \A k \in DOMAIN SimulationConfigFields : SimulationConfig_passes(data, k)
    THEN Built(data) ELSE ValidationError

\* ------------------------------------------- the functions called on their own
\* render_grid and analyze_ecosystem_health read an environment and change
\* nothing; the constructors of config.py take raw data; get_status reads the
\* driver and the environment.  In this second specification each is called
\* once on an input drawn from the sets below, and two phases of step() are
\* entered on environments drawn for them; args names the function that is
\* called and holds the data it is given.

\* a rendered environment holds at most RenderAnts ants and at most RenderOthers
\* entities of each other kind, or a crowd of RenderCrowd ants on one cell
RenderAnts == 2
RenderOthers == 1
RenderCrowd == 40

\* the sequences over S of length at most n
UpTo(n, S) == UNION { [ 1 .. k -> S ] : k \in 0 .. n }

\* two opposite corners of the grid
CornerCells(g) == { << 0, 0 >>, << g - 1, g - 1 >> }

\* environments to render: few entities, also none and several on one cell
RenderInputs(g) ==
    { [ ants |-> [ i \in DOMAIN a |-> Ant(a[i]) ],
        plants |-> [ i \in DOMAIN p |-> Plant(p[i]) ],
        fungi |-> [ i \in DOMAIN f |-> Fungus(f[i]) ],
        parasites |-> [ i \in DOMAIN s |-> Parasite(s[i], VIRULENCE_ONE) ],
        predators |-> [ i \in DOMAIN d |-> Predator(d[i]) ] ] :
      a \in UpTo(RenderAnts, CornerCells(g)),
      p \in UpTo(RenderOthers, CornerCells(g)),
      f \in UpTo(RenderOthers, CornerCells(g)),
      s \in UpTo(RenderOthers, CornerCells(g)),
      d \in UpTo(RenderOthers, CornerCells(g)) }
       \cup { [ ants |-> [ i \in 1 .. RenderCrowd |-> Ant(c) ],
                plants |-> << Plant(c) >>, fungi |-> << >>,
                parasites |-> << >>, predators |-> << Predator(c) >> ] :
              c \in CornerCells(g) }

\* environments to render between two ticks in which a consumed fungus is
\* still held: the first fungus of the collection is inactive
LayeredInputs(g) ==
    { [ e EXCEPT !.fungi[1] = deactivate(@) ] :
        e \in { r \in RenderInputs(g) : Len(r.fungi) > 0 } }

\* population sizes on both sides of every threshold of balance.py
AntCounts == { 0, 1, 19, 20, 60, 61, 91, 200 }
PlantCounts == { 0, 29, 30 }
FungusCounts == { 0, 1 }
ParasiteCounts == { 0, 1, 13, 300 }
PredatorCounts == { 0, 1, 7 }

\* environments to analyse: n entities of a kind, all on one cell
BalanceInputs ==
    { [ ants |-> [ i \in 1 .. na |-> Ant(<< 0, 0 >>) ],
        plants |-> [ i \in 1 .. np |-> Plant(<< 0, 0 >>) ],
        fungi |-> [ i \in 1 .. nf |-> Fungus(<< 0, 0 >>) ],
        parasites |-> [ i \in 1 .. ns |-> Parasite(<< 0, 0 >>, VIRULENCE_ONE) ],
        predators |-> [ i \in 1 .. nd |-> Predator(<< 0, 0 >>) ] ] :
      na \in AntCounts, np \in PlantCounts, nf \in FungusCounts,
      ns \in ParasiteCounts, nd \in PredatorCounts }

\* configurations that differ in grid_size and in the target ratio
ShownConfigs ==
    { ScenarioA,
      [ ScenarioA EXCEPT !.name = "wide", !.grid_size = 6, !.target_ratio = << 1, 2 >> ],
      [ ScenarioA EXCEPT !.name = "lean", !.target_ratio = << 3, 1 >> ] }

\* raw data for ClimateConfig
ClimateData ==
    [ cycle_length : 0 .. 3, rain_duration : 0 .. 4, dry_duration : 0 .. 4 ]

\* raw data for SimulationConfig
SimulationData ==
    [ grid_size : { 4, 5 }, simulation_steps : { 1 }, initial_ants : { 0, 1 },
      initial_plants : { -1, 0, 2, 5 }, initial_fungi : { 0 }, initial_parasites : { 0 },
      initial_predators : { 0 },
      plant_regeneration : [ interval : { 5 }, max_plants : { 0, 1, 3 } ],
      climate : { [ cycle_length |-> 2, rain_duration |-> 1, dry_duration |-> 1 ],
                  [ cycle_length |-> 2, rain_duration |-> 3, dry_duration |-> 1 ] } ]

\* n entities of each kind, all on one cell
Population(na, np, nf, ns, nd) ==
    [ ants |-> [ i \in 1 .. na |-> Ant(<< 0, 0 >>) ],
      plants |-> [ i \in 1 .. np |-> Plant(<< 0, 0 >>) ],
      fungi |-> [ i \in 1 .. nf |-> Fungus(<< 0, 0 >>) ],
      parasites |-> [ i \in 1 .. ns |-> Parasite(<< 0, 0 >>, VIRULENCE_ONE) ],
      predators |-> [ i \in 1 .. nd |-> Predator(<< 0, 0 >>) ] ]

\* environments whose risk is asked for: counts on both sides of every
\* threshold of _calculate_extinction_risk
StatusInputs ==
    { Population(na, np, nf, 0, nd) :
      na \in { 0, 1, 3, 4, 10, 11, 20, 21 }, np \in { 0, 1 }, nf \in { 0, 1 },
      nd \in { 0, 5, 6, 11 } }

\* configurations for the phases of step() entered on their own
Brood == Cfg("brood", 1, 1, 0, 0, 0, 0, 5, FALSE, 1, 15, 10, 1, 2, FALSE, FALSE)
Twins == Cfg("twins", 1, 1, 0, 0, 0, 0, 5, FALSE, 1, 10, 1, 2, 2, FALSE, FALSE)
\* Scenario B of the specification: a target ratio of 10 ants per predator
ScenarioB == Cfg("B", 1, 1, 0, 0, 0, 0, 5, FALSE, 1, 15, 10, 1, 2, TRUE, FALSE)
\* 2.5 ants per predator, and no spawning at all in the rain
Dense ==
    [ Cfg("dense", 1, 1, 0, 0, 0, 0, 5, FALSE, 1, 15, 10, 1, 2, TRUE, FALSE)
         EXCEPT !.target_ratio = << 5, 2 >>, !.rain_spawn_reduction = << 0, 1 >> ]

\* a fungus that a reproduction has drawn from: 5.0 units are left of its 10.0
Depleted(pos) == [ Fungus(pos) EXCEPT !.nutrition_value = CONSUMABLE_ABOVE ]

\* at most ReproFungi fungi stand in an environment about to reproduce
ReproFungi == 3

\* environments at the start of _ant_reproduction: no, one or two ants, and
\* fungi as the harvests of the tick made them or as an earlier reproduction
\* left them
ReproInputs ==
    { [ ants |-> a, plants |-> << >>, fungi |-> f, parasites |-> << >>,
        predators |-> << >> ] :
      a \in { << >>, << Ant(<< 0, 0 >>) >>, << Ant(<< 0, 0 >>), Ant(<< 2, 2 >>) >> },
      f \in UpTo(ReproFungi, { Fungus(<< 0, 1 >>), Depleted(<< 0, 1 >>) }) }

\* environments at the start of _predator_spawning
SpawnInputs ==
    { Population(na, 0, 0, 0, nd) :
      na \in { 0, 1, 9, 10, 25, 100 }, nd \in { 0, 1, 2, 3, 10, 11 } }

ConstructorCalls ==
    { [ kind |-> "ClimateConfig", data |-> d ] : d \in ClimateData }
       \cup { [ kind |-> "SimulationConfig", data |-> d ] : d \in SimulationData }

FnInit ==
    /\ caller = None /\ gen = NoGen /\ op = "init" /\ raised = FALSE
    /\ result = NoResult /\ entry = NoEntry /\ calls = 0 /\ stopped = FALSE
    /\ draw = NoDraw
    /\ climate_timer = 0
    /\ metrics = EmptyMetrics
    /\ \/ /\ config \in ShownConfigs
          /\ is_running = FALSE /\ current_step = 0 /\ pc = Idle
          /\ step_count = 0 /\ current_climate = "dry"
          /\ \/ args = [ kind |-> "render_grid" ]
             \/ args = [ kind |-> "analyze_ecosystem_health" ]
          /\ \E e \in IF args.kind = "render_grid"
                       THEN RenderInputs(config.grid_size) \cup LayeredInputs(config.grid_size)
                       ELSE BalanceInputs :
                /\ ants = e.ants /\ plants = e.plants /\ fungi = e.fungi
                /\ parasites = e.parasites /\ predators = e.predators
       \/ /\ args \in ConstructorCalls
          /\ config = ScenarioA
          /\ is_running = FALSE /\ current_step = 0 /\ pc = Idle
          /\ step_count = 0 /\ current_climate = "dry"
          /\ ants = << >> /\ plants = << >> /\ fungi = << >>
          /\ parasites = << >> /\ predators = << >>
       \/ /\ args = [ kind |-> "get_status" ]
          /\ config = Pair
          /\ is_running \in BOOLEAN /\ current_step \in { 0, 1 } /\ pc = Idle
          /\ step_count = current_step /\ current_climate = "dry"
          /\ \E e \in StatusInputs :
                /\ ants = e.ants /\ plants = e.plants /\ fungi = e.fungi
                /\ parasites = e.parasites /\ predators = e.predators
       \/ /\ args = [ kind |-> "ant_reproduction" ]
          /\ config \in { Brood, Twins }
          /\ is_running = TRUE /\ current_step = 0 /\ pc = At("repro")
          /\ step_count \in { 9, 10 } /\ current_climate = "dry"
          /\ \E e \in ReproInputs :
                /\ ants = e.ants /\ plants = e.plants /\ fungi = e.fungi
                /\ parasites = e.parasites /\ predators = e.predators
       \/ /\ args = [ kind |-> "predator_spawning" ]
          /\ config \in { ScenarioB, Dense }
          /\ is_running = TRUE /\ current_step = 0 /\ pc = At("spawn")
          /\ step_count = 1 /\ current_climate \in { "dry", "rain" }
          /\ \E e \in SpawnInputs :
                /\ ants = e.ants /\ plants = e.plants /\ fungi = e.fungi
                /\ parasites = e.parasites /\ predators = e.predators

\* what a call of one of these functions leaves alone
FnFrame ==
    UNCHANGED << config, is_running, current_step, env, pc, caller, gen, raised, entry,
                 calls, stopped, draw, args >>

\* Environment.render_grid is called
Environment_render_grid ==
    /\ op = "init" /\ args.kind = "render_grid"
    /\ op' = "render_grid"
    /\ result' = [ kind |-> "text",
                   grid |-> render_text(config.grid_size, plants, fungi, parasites,
                                        predators, ants) ]
    /\ FnFrame

\* EcosystemBalance(config).analyze_ecosystem_health(environment) is called
EcosystemBalance_analyze ==
    /\ op = "init" /\ args.kind = "analyze_ecosystem_health"
    /\ op' = "analyze_ecosystem_health"
    /\ result' = [ kind |-> "health",
                   health |-> analyze_ecosystem_health(config, ants, plants, fungi,
                                                       parasites, predators) ]
    /\ FnFrame

\* ClimateConfig(**data) is called
ClimateConfig_new ==
    /\ op = "init" /\ args.kind = "ClimateConfig"
    /\ op' = "ClimateConfig"
    /\ result' = ClimateConfig(args.data)
    /\ FnFrame

\* SimulationConfig(**data) is called
SimulationConfig_new ==
    /\ op = "init" /\ args.kind = "SimulationConfig"
    /\ op' = "SimulationConfig"
    /\ result' = SimulationConfig(args.data)
    /\ FnFrame

\* Simulation.get_status is called
Simulation_get_status ==
    /\ op = "init" /\ args.kind = "get_status"
    /\ op' = "get_status"
    /\ result' = [ kind |-> "status", status |-> get_status ]
    /\ FnFrame

\* _ant_reproduction and _predator_spawning are the phases of step(), entered
\* here on the environments drawn for them
FnNext ==
    \/ Environment_render_grid \/ EcosystemBalance_analyze
    \/ ClimateConfig_new \/ SimulationConfig_new
    \/ Simulation_get_status
    \/ ant_reproduction \/ add_larva \/ predator_spawning

FnSpec == FnInit /\ [][FnNext]_vars

\* ------------------------------------------- Environment.step() on its own
\* Environment.step() called directly on a freshly built environment, once
\* after the other, config.simulation_steps times in all, with add_ant called
\* between two ticks; a call that raises leaves the environment as it is and
\* the next call follows.  No configuration gathers enough nutrition for a
\* larva, so the larvae have nothing to act on.

\* The longest direct run has LongRun ticks.
LongRun == 50

\* add_ant is called at most MaxAdds times on an environment, and only in the
\* short run.
MaxAdds == 1
\* the cells an ant is added at: three cells away from the first row's corner
AddCells == { << 0, 3 >> }

\* The run that sees two fungi age has DecayRun ticks.
DecayRun == 199
\* The run that sees a parasite age has LingerRun ticks.
LingerRun == 200

\* One predator beside one ant, which does not outlive the first tick.
Lone == Cfg("lone", LongRun, 1, 0, 0, 0, 1, 5, FALSE, 1, 15, 10, 1, 2, FALSE, FALSE)
\* Two predators among two ants.
Hunt == Cfg("hunt", 2, 2, 0, 0, 0, 2, 5, FALSE, 1, 15, 10, 1, 2, FALSE, FALSE)

\* One ant and two fungi.
Decay == Cfg("decay", DecayRun, 1, 0, 2, 0, 0, 5, FALSE, 1, 15, 10, 1, 2, FALSE, FALSE)
\* One ant and one parasite that never spreads.
Linger == Cfg("linger", LingerRun, 1, 0, 0, 1, 0, 5, FALSE, 1, 15, 10, 1, 2, FALSE, FALSE)
\* One ant and two parasites that spread.
Plague == Cfg("plague", 2, 1, 0, 0, 2, 0, 5, FALSE, 1, 15, 10, 1, 2, FALSE, TRUE)

\* Two ants beside one plant, for a single tick.
Swarm == Cfg("swarm", 1, 2, 1, 0, 0, 0, 5, FALSE, 1, 15, 10, 1, 2, FALSE, FALSE)

EnvInit ==
    /\ config \in { Lone, Hunt, Decay, Linger, Plague, Swarm }
    /\ args = [ kind |-> "step", adds |-> IF config = Hunt THEN MaxAdds ELSE 0 ]
    /\ \E e \in Environment(config) :
          /\ step_count = e.step_count
          /\ ants = e.ants /\ plants = e.plants /\ fungi = e.fungi
          /\ parasites = e.parasites /\ predators = e.predators
          /\ current_climate = e.current_climate
          /\ climate_timer = e.climate_timer
          /\ metrics = e.metrics
    /\ is_running = FALSE
    /\ current_step = 0
    /\ pc = Idle
    /\ caller = None
    /\ gen = NoGen
    /\ op = "init"
    /\ raised = FALSE
    /\ result = NoResult
    /\ entry = NoEntry
    /\ calls = 0
    /\ stopped = FALSE
    /\ draw = NoDraw

\* environment.step() is called
step_called ==
    /\ pc = Idle /\ args.kind = "step"
    /\ step_count < config.simulation_steps
    /\ pc' = At("step")
    /\ caller' = "direct"
    /\ op' = "step"
    /\ entry' = [ current_step |-> current_step, step_count |-> step_count,
                  lens |-> << Len(plants), Len(fungi), Len(parasites), Len(predators),
                              Len(ants) >> ]
    /\ draw' = NoDraw
    /\ raised' = FALSE
    /\ UNCHANGED << env, driver, gen, result, calls, stopped, args >>

\* Environment.add_ant(position) is called between two ticks
add_ant ==
    /\ pc = Idle /\ args.kind = "step"
    /\ calls < args.adds
    /\ calls' = calls + 1
    /\ op' = "add_ant"
    /\ \E pos \in AddCells : ants' = Append(ants, Ant(pos))
    /\ draw' = NoDraw
    /\ UNCHANGED << step_count, plants, fungi, parasites, predators, current_climate,
                    climate_timer, metrics, driver, pc, caller, gen, raised, result,
                    entry, stopped, args >>

\* environment.step() has returned
step_returned ==
    /\ pc = At("return") /\ caller = "direct"
    /\ pc' = Idle
    /\ caller' = None
    /\ entry' = NoEntry
    /\ draw' = NoDraw
    /\ UNCHANGED << env, driver, gen, op, raised, result, calls, stopped, args >>

EnvNext ==
    \/ step_called \/ step_returned \/ add_ant
    \/ Environment_step \/ update_climate
    \/ skip_inactive
    \/ Plant_update \/ Fungus_update \/ Parasite_update \/ Predator_update \/ Ant_update
    \/ cleanup_entities \/ plant_regeneration
    \/ ant_reproduction
    \/ predator_spawning \/ update_metrics

EnvSpec == EnvInit /\ [][EnvNext]_vars

\* ==================================================================== claims
\* the extinction predicate as the specification states it
ExtinctionPredicate ==
    \/ Len(ants) = 0
    \/ Len(ants) + Len(plants) + Len(fungi) < 3

AllActive ==
    /\ \A k \in DOMAIN ants : ants[k].active
    /\ \A k \in DOMAIN plants : plants[k].active
    /\ \A k \in DOMAIN fungi : fungi[k].active
    /\ \A k \in DOMAIN parasites : parasites[k].active
    /\ \A k \in DOMAIN predators : predators[k].active

\* the number of cells of a rendered grid that are not empty
NonEmptyCells(grid) ==
    Cardinality({ c \in (DOMAIN grid) \X (DOMAIN grid) : grid[c[1]][c[2]] # TILE_EMPTY })

\* a driver method named m is entered by this step
Calls(m) == pc = Idle /\ calls' = calls + 1 /\ op' = m

\* C1: Environment.step() never raises: every call of step_once() and every
\* resumption of run() completes normally, also when an active fungus with
\* health > 0.4 is updated.
C1_StepNeverRaises == raised = FALSE

\* C2: the driver never starts a tick from a state in which the extinction
\* predicate (ants == 0 or ants + plants + fungi < 3) holds, neither in
\* step_once nor in run; from such a state a driver call leaves the environment
\* as it is unless the call is reset().
C2_NoTickWhenExtinct ==
    [][ (pc = Idle /\ ExtinctionPredicate)
           => (pc' = Idle /\ (env' = env \/ op' = "reset")) ]_vars

\* C2 witness: after a tick the predicate holds, the budget is not used up, and
\* a step_once() or a resumption of run() has declined to tick.
C2_Witness ==
    /\ pc = Idle /\ ExtinctionPredicate /\ step_count > 0
    /\ op \in {"step_once", "next"} /\ ~raised
    /\ current_step < config.simulation_steps
    /\ metrics.step # << >>

\* C3 as stated (Scenario A): after one step_once() on a fresh driver built
\* with grid_size 5 and one ant only, the ant count is 1, current_step is 1 and
\* the rendered grid has exactly one non-empty cell.
C3_ScenarioA_AsStated ==
    (config = ScenarioA /\ calls = 1 /\ op = "step_once" /\ pc = Idle)
       => /\ Len(ants) = 1
          /\ current_step = 1
          /\ result.kind = "grid" /\ NonEmptyCells(result.grid) = 1

\* C3 amended: in Scenario A one ant is fewer than three entities, so the
\* extinction predicate holds from construction and step_once() takes no tick:
\* afterwards the ant count is 1, current_step and step_count are 0, and the
\* rendered grid has exactly one non-empty cell.
C3_ScenarioA ==
    (config = ScenarioA /\ calls = 1 /\ op = "step_once" /\ pc = Idle)
       => /\ Len(ants) = 1
          /\ current_step = 0 /\ step_count = 0
          /\ result.kind = "grid" /\ NonEmptyCells(result.grid) = 1

\* C3 witness: step_once() was the first call on a Scenario A driver.
C3_Witness ==
    /\ config = ScenarioA /\ config.grid_size = 5 /\ calls = 1 /\ op = "step_once"
    /\ pc = Idle /\ is_running

\* C4: step_once() with budget left and no extinction advances the environment
\* by exactly one tick and current_step by exactly 1; otherwise it leaves both
\* unchanged; in both cases it ends with is_running true and returns the
\* rendering of the environment as it then is.
C4_StepOnceContract ==
    [][ /\ (Calls("step_once") /\ pc' = Idle)
           => /\ ~(current_step < config.simulation_steps /\ ~ExtinctionPredicate)
              /\ env' = env /\ current_step' = current_step
              /\ is_running' /\ result' = Rendered(GridNext)
        /\ (Calls("step_once") /\ pc' # Idle)
           => (current_step < config.simulation_steps /\ ~ExtinctionPredicate)
        /\ (caller = "step_once" /\ pc # Idle /\ pc' = Idle)
           => /\ ~raised'
              /\ step_count' = entry.step_count + 1
              /\ current_step' = entry.current_step + 1
              /\ is_running' /\ result' = Rendered(GridNext) ]_vars

\* C5: a run(max_steps) generator driven to exhaustion with no other driver
\* call interleaved ends without error after k ticks, where the extinction
\* predicate holds or k = max_steps, having yielded k + 1 grids.
C5_RunToExhaustion ==
    [][ (gen.state = "suspended" /\ gen'.state \in {"done", "failed"} /\ gen'.alone)
           => /\ gen'.state = "done" /\ ~raised'
              /\ gen'.yields = gen'.ticks + 1
              /\ gen'.ticks <= gen'.max_steps
              /\ (gen'.ticks = gen'.max_steps \/ ExtinctionPredicate) ]_vars

\* C6: when a run ends because the budget is used up or the extinction
\* predicate holds, and when step_once() declines to tick, the running flag is
\* false afterwards.
C6_StoppedAfterEnd ==
    [][ /\ (Calls("next") /\ gen.state = "suspended" /\ gen'.state = "done")
           => ~is_running'
        /\ (Calls("step_once") /\ pc' = Idle) => ~is_running' ]_vars

\* C7 as stated: once stop() has stopped a running driver, and until reset() is
\* called, no call advances the environment or current_step and the running
\* flag stays false.
C7_StoppedIsTerminal_AsStated ==
    [][ (stopped /\ stopped')
           => (~is_running' /\ env' = env /\ current_step' = current_step) ]_vars

\* C7 amended: while the running flag is false (after stop()), resuming a
\* run() generator that is suspended at a yield executes no tick, leaves the
\* environment, current_step and the flag as they are, and ends the generator.
\* Stopped is not terminal: step_once() and a newly started run() set the flag
\* again.
C7_StopEndsSuspendedRun ==
    [][ (~is_running /\ Calls("next") /\ gen.state = "suspended")
           => /\ pc' = Idle /\ gen'.state = "done"
              /\ env' = env /\ current_step' = current_step /\ ~is_running' ]_vars

\* C7 witness: a generator with budget left and no extinction was resumed after
\* stop() and ended without a tick.
C7_Witness ==
    /\ stopped /\ op = "next" /\ pc = Idle /\ gen.state = "done" /\ ~is_running
    /\ current_step < gen.max_steps /\ ~ExtinctionPredicate

\* C8: stop() changes only the running flag: the environment and current_step
\* are the same before and after the call, in whatever state it is called.
C8_StopFrame ==
    [][ Calls("stop") => (env' = env /\ current_step' = current_step /\ ~is_running') ]_vars

\* C8 witness: stop() was called on a running driver that had ticked.
C8_Witness ==
    /\ op = "stop" /\ pc = Idle /\ ~is_running
    /\ current_step > 0 /\ step_count > 0 /\ metrics.step # << >>

\* C9: reset() in any driver state gives an Idle driver on a fresh environment
\* of the same configuration: current_step 0, not running, step_count 0,
\* climate DRY with timer 0, empty metrics, and the configured initial count of
\* every entity type.
C9_ResetFresh ==
    (op = "reset" /\ pc = Idle)
       => /\ current_step = 0 /\ ~is_running
          /\ step_count = 0 /\ current_climate = "dry" /\ climate_timer = 0
          /\ \A k \in DOMAIN metrics : metrics[k] = << >>
          /\ Len(ants) = config.initial_ants
          /\ Len(plants) = config.initial_plants
          /\ Len(fungi) = config.initial_fungi
          /\ Len(parasites) = config.initial_parasites
          /\ Len(predators) = config.initial_predators

\* C9 witness: reset() was called after a run() generator had ticked the
\* environment.
C9_Witness == op = "reset" /\ pc = Idle /\ gen.ticks > 0 /\ calls >= 4

\* C10: when Environment.step() has returned, no collection holds an entity
\* with active == false.
C10_PurgedAtReturn == pc = At("return") => AllActive

\* the positions in a collection of the entities that are inactive
Inactive(list) == { k \in DOMAIN list : ~list[k].active }

\* after is before with its inactive entities taken out and nothing else changed
Purged(before, after) ==
    /\ \A k \in DOMAIN after : after[k].active
    /\ Len(after) = Len(before) - Cardinality(Inactive(before))
    /\ \A k \in DOMAIN before :
          before[k].active
             => after[k - Cardinality({ i \in 1 .. k : ~before[i].active })] = before[k]

\* C11: immediately after a cleanup pass each of the five collections holds
\* exactly the entities that were in it and active before the pass, in their
\* order; none of them is inactive, and the size of the collection has dropped
\* by the number of its inactive entities.
C11_CleanupPurges ==
    [][ pc = At("cleanup")
           => /\ Purged(ants, ants') /\ Purged(plants, plants') /\ Purged(fungi, fungi')
              /\ Purged(parasites, parasites') /\ Purged(predators, predators') ]_vars

\* C11 witness: the cleanup pass of the first tick has just taken a harvested
\* plant out of the plants and left the others.
C11_Witness ==
    /\ pc = At("regen") /\ step_count = 1
    /\ Len(plants) < config.initial_plants /\ Len(plants) > 0
    /\ Len(fungi) > config.initial_fungi /\ AllActive

\* C12: between ticks all eight metrics arrays have the length step_count, the
\* number of ticks taken on the environment, and entry k (0-based) of the step
\* array is k + 1; a tick appends one entry to each array and changes nothing
\* that was there; only a new environment (reset) starts the arrays again.
C12_MetricsAligned ==
    [][ /\ pc' = Idle
           => /\ \A k \in DOMAIN metrics' : Len(metrics'[k]) = step_count'
              /\ \A i \in DOMAIN metrics'.step : metrics'.step[i] = i
        /\ metrics' # metrics
           => \/ op' = "reset" /\ metrics' = EmptyMetrics
              \/ \A k \in DOMAIN metrics :
                    /\ Len(metrics'[k]) = Len(metrics[k]) + 1
                    /\ SubSeq(metrics'[k], 1, Len(metrics[k])) = metrics[k] ]_vars

\* every entity of the collection stands on a cell of the grid
InGrid(list) ==
    \A k \in DOMAIN list :
       /\ 0 <= list[k].position[1] /\ list[k].position[1] < config.grid_size
       /\ 0 <= list[k].position[2] /\ list[k].position[2] < config.grid_size

\* C13: in every reachable state (after construction and after every move,
\* harvest, parasite spread, plant regeneration, ant reproduction and predator
\* spawn) every entity of every collection has a position (x, y) with
\* 0 <= x < grid_size and 0 <= y < grid_size.
C13_PositionsInGrid ==
    InGrid(ants) /\ InGrid(plants) /\ InGrid(fungi) /\ InGrid(parasites) /\ InGrid(predators)

\* C13 witness: a tick has ended in which a parasite spread, a predator was
\* spawned and an ant that moved stands on the border row of the grid.
C13_Witness ==
    /\ pc = At("return")
    /\ Len(parasites) > config.initial_parasites
    /\ Len(predators) > config.initial_predators
    /\ \E k \in DOMAIN ants :
          ants[k].active /\ ants[k].position[1] = 0 /\ ants[k].position[2] > InitSpan

\* C14: immediately after construction the numbers of ants, plants, fungi,
\* parasites and predators are the configured initial counts, also when the
\* random placement puts several entities on one cell; step_count is 0 and
\* every entity is active.
C14_InitialCounts ==
    calls = 0
       => /\ Len(ants) = config.initial_ants
          /\ Len(plants) = config.initial_plants
          /\ Len(fungi) = config.initial_fungi
          /\ Len(parasites) = config.initial_parasites
          /\ Len(predators) = config.initial_predators
          /\ step_count = 0 /\ AllActive

\* C14 witness: a freshly built environment in which two plants were placed on
\* one cell and the ant on that cell too.
C14_Witness ==
    /\ calls = 0 /\ op = "init" /\ Len(plants) = 2
    /\ plants[1].position = plants[2].position
    /\ ants[1].position = plants[1].position


\* C20: starting from DRY with timer 0, the climate flips at exactly the ticks
\* whose step_count is a positive multiple of cycle_length: once the climate
\* update of a tick is done, climate_timer is step_count mod cycle_length (0 at
\* every flip, never cycle_length or more) and the climate is RAIN exactly when
\* an odd number of multiples of cycle_length has been passed.  Nothing but
\* cycle_length enters: rain_duration and dry_duration are not read.
C20_ClimateCycle ==
    /\ climate_timer <= config.cycle_length
    /\ pc # At("climate")
          => /\ climate_timer = step_count % config.cycle_length
             /\ current_climate =
                   IF (step_count \div config.cycle_length) % 2 = 0 THEN "dry" ELSE "rain"

\* C20 witness: with cycle_length 2 the first tick left the climate DRY and the
\* second flipped it to RAIN and set the timer back to 0.
C20_Witness ==
    /\ pc = Idle /\ config.cycle_length = 2 /\ step_count = 2
    /\ current_climate = "rain" /\ climate_timer = 0
    /\ metrics.climate = << "dry", "rain" >>


\* C19: runs are deterministic given the random source.  Inside a tick the
\* state a step leads to (entities with their positions, attributes and active
\* flags, climate, metrics, the position in the fixed phase and entity order,
\* and whether the tick raised) is a function of the state it starts from and
\* of what the random source gives it: no two steps from one state that draw
\* the same lead to different states.  Two environments that start equal and
\* are fed the same draws therefore pass through the same states.
C19_DeterministicGivenDraws ==
    [][ pc # Idle
           => \A d \in { draw' } : \A e \in { << env', pc', raised' >> } :
                 ~ ENABLED (Next /\ draw' = d /\ << env', pc', raised' >> # e) ]_vars

\* C19 witness: a tick has ended in which probability checks were drawn and
\* positions were chosen: a parasite spread, a predator was spawned and one of
\* the two ants was lost.
C19_Witness ==
    /\ pc = At("return")
    /\ Len(parasites) > config.initial_parasites
    /\ Len(predators) > config.initial_predators
    /\ 0 < Len(ants) /\ Len(ants) < config.initial_ants
    /\ metrics.predator_count = << Len(predators) >>


\* the lines of a text: what stands between its line breaks
Lines(text) ==
    LET RECURSIVE from(_)
        from(s) ==
            LET breaks == { i \in DOMAIN s : s[i] = "\n" }
                first == CHOOSE i \in breaks : \A j \in breaks : i <= j
            IN  IF breaks = {} THEN << s >>
                ELSE << SubSeq(s, 1, first - 1) >> \o from(SubSeq(s, first + 1, Len(s)))
    IN  from(text)

\* C15: render_grid returns exactly grid_size rows of exactly grid_size
\* symbols each, whatever the number of entities: with none, with several on
\* one cell, with hundreds.
C15_GridShape ==
    op = "render_grid"
       => /\ result.kind = "text"
          /\ Len(Lines(result.grid)) = config.grid_size
          /\ \A r \in DOMAIN Lines(result.grid) :
                /\ Len(Lines(result.grid)[r]) = config.grid_size
                /\ \A y \in DOMAIN Lines(result.grid)[r] :
                      Lines(result.grid)[r][y] \in
                         { TILE_EMPTY, TILE_ANT, TILE_PLANT, TILE_FUNGUS, TILE_PARASITE,
                           TILE_PREDATOR }

\* C15 witness: an environment with no entity at all was rendered on a grid of
\* size 6: six lines of six empty tiles.
C15_Witness ==
    /\ op = "render_grid" /\ config.grid_size = 6
    /\ Len(ants) + Len(plants) + Len(fungi) + Len(parasites) + Len(predators) = 0
    /\ Len(result.grid) = 41
    /\ \A i \in DOMAIN result.grid : result.grid[i] \in { TILE_EMPTY, "\n" }

\* a score lies in [0, 1]
InUnit(score) == score[2] > 0 /\ 0 <= score[1] /\ score[1] <= score[2]

\* C16: for every combination of ant, plant, fungus, parasite and predator
\* counts (all zero included) and every target ratio > 0, each of the five
\* component scores of analyze_ecosystem_health lies in [0, 1], and so does
\* overall, which is their unweighted mean.
C16_HealthInUnit ==
    op = "analyze_ecosystem_health"
       => /\ \A k \in DOMAIN result.health : InUnit(result.health[k])
          /\ FMul(result.health.overall, Frac(5, 1)) =
                FAdd(result.health.population, FAdd(result.health.food,
                   FAdd(result.health.predator_balance,
                      FAdd(result.health.parasite_impact, result.health.diversity))))

\* C16 witness: an environment with no entity at all was analysed: only the
\* predator balance is 1, the mean is 1/5.
C16_Witness ==
    /\ op = "analyze_ecosystem_health"
    /\ Len(ants) + Len(plants) + Len(fungi) + Len(parasites) + Len(predators) = 0
    /\ result.health.predator_balance = << 1, 1 >>
    /\ result.health.overall = << 1, 5 >>

\* C17: constructing a configuration whose initial_plants exceeds
\* plant_regeneration.max_plants fails with a configuration error, and no
\* configuration object is produced.
C17_InitialPlantsChecked ==
    (op = "SimulationConfig"
        /\ args.data.initial_plants > args.data.plant_regeneration.max_plants)
       => result.kind = "error"

\* C18: constructing a climate configuration in which rain_duration or
\* dry_duration exceeds cycle_length fails with a configuration error, and no
\* configuration object is produced.
C18_DurationsChecked ==
    (op = "ClimateConfig"
        /\ (args.data.rain_duration > args.data.cycle_length
               \/ args.data.dry_duration > args.data.cycle_length))
       => result.kind = "error"

\* C18 witness (Scenario E): every field of the data is positive, only
\* rain_duration is above cycle_length, and the construction failed.
C18_Witness ==
    /\ op = "ClimateConfig" /\ result.kind = "error"
    /\ args.data.cycle_length = 2 /\ args.data.rain_duration = 3
    /\ args.data.dry_duration = 1


\* the number of active entities of a collection
Live(list) == Cardinality({ k \in DOMAIN list : list[k].active })

\* the summed nutrition of the active fungi
LiveNutrition == SumNutrition(ActiveOnly(fungi), 1, FALSE)

\* the last entry of a metrics array
Latest(array) == array[Len(array)]

\* C23: after every tick the per-type counts of the status snapshot and of the
\* metrics entry of that tick are the numbers of active entities of each type,
\* and the total fungus nutrition exposed (total_food, food_stock) is the
\* summed nutrition of the active fungi.
C23_CountsAreLive ==
    pc = At("return")
       => /\ get_entity_counts.ants = Live(ants)
          /\ get_entity_counts.plants = Live(plants)
          /\ get_entity_counts.fungi = Live(fungi)
          /\ get_entity_counts.parasites = Live(parasites)
          /\ get_entity_counts.predators = Live(predators)
          /\ Latest(metrics.ant_count) = Live(ants)
          /\ Latest(metrics.plant_count) = Live(plants)
          /\ Latest(metrics.fungus_count) = Live(fungi)
          /\ Latest(metrics.parasite_count) = Live(parasites)
          /\ Latest(metrics.predator_count) = Live(predators)
          /\ total_food = LiveNutrition
          /\ Latest(metrics.food_stock) = LiveNutrition


\* the entity of collection l at index k has not been touched since it was made
Fresh(l, k) ==
    CASE l = 1 -> plants[k] = Plant(plants[k].position)
      [] l = 2 -> fungi[k] = Fungus(fungi[k].position)
      [] l = 3 -> parasites[k] = Parasite(parasites[k].position, parasites[k].virulence)
      [] l = 4 -> predators[k] = Predator(predators[k].position)
      [] l = 5 -> ants[k] = Ant(ants[k].position)

\* C24: in the entity-update phase the collections are processed in the order
\* plants, fungi, parasites, predators, ants; update is applied only to
\* entities that were in their collection when its turn started and that are
\* active at their own turn.  So an entity created during the tick is still as
\* it was made when the phase ends, no update follows a creation of the later
\* phases (regenerated plant, new ant, spawned predator), and an ant that a
\* predator deactivated neither moves nor harvests.
C24_UpdateOrder ==
    [][ /\ (pc.phase = "update" /\ pc'.phase = "update")
           => \/ pc'.list > pc.list
              \/ pc'.list = pc.list /\ pc'.i = pc.i + 1
        /\ pc.phase = "update"
           => /\ pc.i <= entry.lens[pc.list]
              /\ pc'.phase \in { "update", "cleanup", "idle" }
              /\ ~ListOf(pc.list)[pc.i].active => env' = env
              /\ \A k \in DOMAIN ants :
                    (k # pc.i \/ pc.list # 5)
                       => ants'[k].position = ants[k].position
        /\ pc'.phase = "update" => pc.phase \in { "climate", "update" }
        /\ pc' = At("cleanup")
           => \A l \in 1 .. 5 : \A k \in DOMAIN ListOf(l)' :
                 k > entry.lens[l] => Fresh(l, k)' ]_vars

\* C24 witness: the update phase of a tick has ended in which a parasite
\* spread and a predator deactivated an ant: the new parasite is as it was
\* made, the ant stands where it stood.
C24_Witness ==
    /\ pc = At("cleanup")
    /\ Len(parasites) > entry.lens[3]
    /\ Fresh(3, Len(parasites))
    /\ \E k \in DOMAIN ants : ~ants[k].active /\ ants[k].position \in InitCells
    /\ \E k \in DOMAIN predators : predators[k].energy > PREDATOR_START_ENERGY


\* the cells on which an entity of any type stands
Occupied ==
    Positions(ants) \cup Positions(plants) \cup Positions(fungi) \cup Positions(parasites)
       \cup Positions(predators)

ThreatOn(pos) == pos \in Positions(predators) \cup Positions(parasites)

\* C28: the update of an active ant.  If a predator or parasite is on its cell
\* when the update starts, the ant is deactivated where it stands.  Otherwise
\* it moves at most one cell (a cardinal neighbour or none, inside the grid);
\* if a predator or parasite is on the new cell it is deactivated and harvests
\* nothing; otherwise it stays active and, if a plant is on the new cell, that
\* plant is deactivated and a fungus is created on that cell.  Nothing else
\* changes.
C28_AntUpdate ==
    [][ Updating(5)
           => LET a == ants[pc.i]
                  b == ants'[pc.i]
              IN  /\ Len(ants') = Len(ants)
                  /\ \A k \in DOMAIN ants : k # pc.i => ants'[k] = ants[k]
                  /\ UNCHANGED << parasites, predators >>
                  /\ Len(plants') = Len(plants)
                  /\ IF ThreatOn(a.position)
                     THEN /\ b = [ a EXCEPT !.active = FALSE ]
                          /\ UNCHANGED << plants, fungi >>
                     ELSE /\ manhattan_distance(a.position, b.position) <= 1
                          /\ b.position \in Cells(config.grid_size)
                          /\ b.active = ~ThreatOn(b.position)
                          /\ IF b.active /\ b.position \in Positions(plants)
                             THEN /\ \E k \in DOMAIN plants :
                                        /\ plants[k].position = b.position
                                        /\ plants' = [ plants EXCEPT ![k].active = FALSE ]
                                  /\ fungi' = Append(fungi, Fungus(b.position))
                             ELSE UNCHANGED << plants, fungi >> ]_vars

\* C28 witness: the ants' turn of a tick has ended in which one ant was
\* deactivated on the cell of a predator or parasite and another one, meeting
\* none, harvested the plant of its cell into a fungus.
C28_Witness ==
    /\ pc = At("cleanup")
    /\ \E k \in DOMAIN ants : ~ants[k].active /\ ThreatOn(ants[k].position)
    /\ \E k \in DOMAIN ants :
          /\ ants[k].active /\ ~ThreatOn(ants[k].position)
          /\ \E j \in DOMAIN plants :
                ~plants[j].active /\ plants[j].position = ants[k].position
          /\ fungi # << >> /\ fungi[Len(fungi)] = Fungus(ants[k].position)


\* C21: predator spawning is skipped when there is no ant.  Otherwise the
\* target predator count is max(1, floor(ants / target_ant_predator_ratio)),
\* the spawn multiplier is 1.5 with fewer predators than the target, 0.3 with
\* more and 1.0 with as many, then multiplied by predator_spawn_reduction in
\* RAIN or predator_spawn_increase in DRY, and at most one predator is added.
\* With 100 ants, no predator and ratio 10 the target is 10 and the multiplier
\* before the climate effect is 1.5 (Scenario B).
C21_PredatorSpawning ==
    [][ pc = At("spawn")
           => LET a == Len(ants)
                  p == Len(predators)
                  r == config.target_ratio
                  t == target_predators(a, r)
                  m == spawn_multiplier(p, t)
              IN  /\ a = 0 => (predators' = predators /\ draw' = NoDraw)
                  /\ a > 0
                     => /\ t >= 1
                        /\ t * r[1] <= a * r[2] \/ (t = 1 /\ a * r[2] < r[1])
                        /\ (t + 1) * r[1] > a * r[2]
                        /\ m = (IF p < t THEN << 3, 2 >>
                                ELSE IF p > t THEN << 3, 10 >> ELSE << 1, 1 >>)
                        /\ climate_spawn_multiplier(config, current_climate, a, p) =
                              FMul(m, IF current_climate = "rain"
                                      THEN config.rain_spawn_reduction
                                      ELSE config.dry_spawn_increase)
                  /\ (a = 100 /\ p = 0 /\ r = << 10, 1 >>) => (t = 10 /\ m = << 3, 2 >>)
                  /\ \/ predators' = predators
                     \/ \E pos \in Cells(config.grid_size) :
                           predators' = Append(predators, Predator(pos))
                  /\ pc' = At("metrics") /\ ~raised' ]_vars

\* C21 witness (Scenario B): with 100 ants, no predator and ratio 10 the
\* spawning phase has drawn a hit and added the one predator.
C21_Witness ==
    /\ pc = At("metrics") /\ args.kind = "predator_spawning"
    /\ Len(ants) = 100 /\ Len(predators) = 1 /\ config.target_ratio = << 10, 1 >>
    /\ draw.check = "hit" /\ predators[1] = Predator(draw.choice)

\* C22: the extinction-risk label is a function of the current counts only,
\* first match winning: Extinct when ants = 0; Critical when ants <= 3; High
\* when ants <= 10 or predators > ants / 2; High when there is neither fungus
\* nor plant; Medium when ants <= 20; otherwise Low.  The driver state does
\* not enter.
C22_RiskLabel ==
    op = "get_status"
       => result.status.extinction_risk =
             (CASE Len(ants) = 0 -> "Extinct"
                [] Len(ants) \in 1 .. 3 -> "Critical"
                [] Len(ants) > 3 /\ (Len(ants) <= 10 \/ 2 * Len(predators) > Len(ants)) -> "High"
                [] OTHER -> IF Len(fungi) = 0 /\ Len(plants) = 0 THEN "High"
                            ELSE IF Len(ants) <= 20 THEN "Medium"
                            ELSE "Low")

\* C22 witness: with 11 ants and 6 predators (more than 11 / 2) on a running
\* driver, and food present, the label is High.
C22_Witness ==
    /\ op = "get_status" /\ is_running /\ current_step = 1
    /\ Len(ants) = 11 /\ Len(predators) = 6 /\ Len(fungi) = 1 /\ Len(plants) = 1
    /\ result.status.extinction_risk = "High"

\* the summed nutrition of the fungi of F at the indices S
RECURSIVE NutritionAt(_, _)
NutritionAt(F, S) ==
    IF S = {} THEN 0
    ELSE LET k == CHOOSE k \in S : TRUE
         IN  F[k].nutrition_value + NutritionAt(F, S \ { k })

\* the indices of the active fungi of F, and of those with nutrition > 5
LiveFungi(F) == { k \in DOMAIN F : F[k].active }
ConsumableFungi(F) == { k \in LiveFungi(F) : F[k].nutrition_value > 50 }

\* C25: ant reproduction acts only on ticks where step_count mod
\* larvae_period = 0 and the summed nutrition of the consumable fungi
\* (nutrition > 5) is at least food_threshold.  Then it takes exactly
\* food_threshold units out of the live stock, from consumable fungi only: it
\* deactivates each fungus it empties, leaves at most one partly depleted, and
\* adds exactly larvae_per_cycle ants.  Otherwise no ant is added and no
\* nutrition is consumed.
C25_Reproduction ==
    [][ /\ pc = At("repro")
           => IF /\ step_count % config.larvae_period = 0
                 /\ NutritionAt(fungi, ConsumableFungi(fungi)) >= 10 * config.food_threshold
              THEN /\ NutritionAt(fungi', LiveFungi(fungi')) =
                         NutritionAt(fungi, LiveFungi(fungi)) - 10 * config.food_threshold
                   /\ Len(fungi') = Len(fungi)
                   /\ \A k \in DOMAIN fungi :
                         \/ fungi'[k] = fungi[k]
                         \/ /\ k \in ConsumableFungi(fungi)
                            /\ \/ fungi'[k] = [ fungi[k] EXCEPT !.active = FALSE ]
                               \/ \E n \in 1 .. fungi[k].nutrition_value - 1 :
                                     fungi'[k] = [ fungi[k] EXCEPT !.nutrition_value = n ]
                   /\ Cardinality({ k \in DOMAIN fungi :
                         fungi'[k].active
                            /\ fungi'[k].nutrition_value < fungi[k].nutrition_value }) <= 1
                   /\ ants' = ants
                   /\ pc'.phase = "larvae" /\ pc'.n = config.larvae_per_cycle
              ELSE /\ UNCHANGED << ants, fungi >>
                   /\ pc' = At("spawn")
        /\ pc.phase = "larvae"
           => /\ fungi' = fungi
              /\ Len(ants') = Len(ants) + 1
              /\ SubSeq(ants', 1, Len(ants)) = ants
              /\ ants'[Len(ants')].active
              /\ ants'[Len(ants')].position \in Cells(config.grid_size)
              /\ pc.n >= 1
              /\ pc' = IF pc.n = 1 THEN At("spawn") ELSE [ pc EXCEPT !.n = pc.n - 1 ]
        /\ pc = At("spawn") => UNCHANGED << ants, fungi >> ]_vars

\* C25 witness: with food_threshold 15, at tick 10 of period 10, two fresh
\* fungi and one with 5.0 left were there: the first was emptied, the second
\* is left with 5.0, the third was not touched, and one ant was added near
\* the one that was there.
C25_Witness ==
    /\ pc = At("spawn") /\ args.kind = "ant_reproduction"
    /\ config.food_threshold = 15 /\ step_count = 10 /\ config.larvae_per_cycle = 1
    /\ fungi = << deactivate(Fungus(<< 0, 1 >>)), Depleted(<< 0, 1 >>), Depleted(<< 0, 1 >>) >>
    /\ Len(ants) = 2 /\ ants[1] = Ant(<< 0, 0 >>)
    /\ draw.choice = ants[2].position
    /\ manhattan_distance(ants[1].position, ants[2].position) <= 1

Killed == { k \in DOMAIN ants : ants[k].active /\ ~ants'[k].active }

\* C29: every update of an active predator lowers its energy by 2; when that
\* leaves energy <= 0 the predator is deactivated and neither hunts nor moves;
\* a successful kill adds 30, capped at 150.  Every predator that is active
\* after its update has 0 < energy <= 150, and a predator that has never
\* killed (its energy is still the starting energy less 2 per earlier update)
\* is deactivated at its 50th update and not before.
C29_PredatorEnergy ==
    [][ /\ (pc.phase = "update" /\ pc.list = 4 /\ predators[pc.i].active)
           => LET before == predators[pc.i]
                  after == predators'[pc.i]
              IN  /\ Len(predators') = Len(predators)
                  /\ \A k \in DOMAIN predators : k # pc.i => predators'[k] = predators[k]
                  /\ before.energy - 2 <= 0
                     => /\ after = [ before EXCEPT !.energy = before.energy - 2,
                                                   !.active = FALSE ]
                        /\ ants' = ants
                  /\ before.energy - 2 > 0
                     => /\ after.active
                        /\ after.energy = IF Killed = {} THEN before.energy - 2
                                          ELSE IF before.energy - 2 + 30 > 150 THEN 150
                                          ELSE before.energy - 2 + 30
                  /\ before.energy = PREDATOR_START_ENERGY - 2 * (step_count - 1)
                     => (after.active <=> step_count < 50)
        /\ \A k \in DOMAIN predators' :
              predators'[k].active => (0 < predators'[k].energy /\ predators'[k].energy <= 150) ]_vars

\* C29 witness: the lone predator, which never killed an ant, has just been
\* deactivated by its 50th update, its energy at 0.
C29_Witness ==
    /\ config = Lone /\ step_count = 50 /\ pc = At("cleanup")
    /\ Len(predators) = 1 /\ ~predators[1].active /\ predators[1].energy = 0

\* C30: in one update a predator deactivates at most one ant; that ant was
\* active and within Manhattan distance 3 of the predator's position before
\* the predator moved, and no other active ant was strictly nearer.  So the
\* ants deactivated in the predator phase of a tick are at most as many as the
\* predators updated in it.
C30_PredatorHunt ==
    [][ (pc.phase = "update" /\ pc.list = 4)
           => /\ Len(ants') = Len(ants)
              /\ Cardinality(Killed) <= 1
              /\ ~predators[pc.i].active => Killed = {}
              /\ \A k \in DOMAIN ants :
                    IF k \in Killed
                    THEN /\ ants'[k] = [ ants[k] EXCEPT !.active = FALSE ]
                         /\ manhattan_distance(predators[pc.i].position, ants[k].position) <= 3
                         /\ \A j \in DOMAIN ants :
                               ants[j].active
                                  => manhattan_distance(predators[pc.i].position, ants[j].position)
                                        >= manhattan_distance(predators[pc.i].position,
                                                              ants[k].position)
                    ELSE ants'[k] = ants[k]
              /\ Cardinality({ k \in DOMAIN ants' : ~ants'[k].active }) <= pc.i
              /\ pc.i <= entry.lens[4] ]_vars

\* C30 witness: two predators had their update and each killed an ant; both
\* ants are inactive when the turn of the ants begins.
C30_Witness ==
    /\ config = Hunt /\ pc.phase = "update" /\ pc.list = 5 /\ pc.i = 1
    /\ entry.lens[4] = 2 /\ Len(ants) = 2
    /\ ~ants[1].active /\ ~ants[2].active
    /\ draw.check = "hit"


\* the 4-neighbour cells of pos inside the grid that hold no parasite
FreeBeside(pos) ==
    { c \in Cells(config.grid_size) :
        /\ manhattan_distance(c, pos) = 1
        /\ \A k \in DOMAIN parasites : parasites[k].position # c }

C32_AgeExpiry ==
    [][ /\ (pc.phase = "update" /\ pc.list = 2 /\ fungi[pc.i].active)
           => /\ fungi'[pc.i].age = fungi[pc.i].age + 1
              /\ fungi'[pc.i].active <=> fungi'[pc.i].age < 100
        /\ (pc.phase = "update" /\ pc.list = 3 /\ parasites[pc.i].active)
           => /\ parasites'[pc.i].age = parasites[pc.i].age + 1
              /\ parasites'[pc.i].active <=> parasites'[pc.i].age < 200
        /\ pc = At("cleanup")
           => /\ \A k \in DOMAIN fungi' : fungi'[k].age < 100
              /\ \A k \in DOMAIN parasites' : parasites'[k].age < 200
        /\ (pc' = Idle /\ step_count' >= 100 /\ config.initial_plants = 0 /\ ~config.regen)
           => fungi' = << >>
        /\ (pc' = Idle /\ step_count' >= 200 /\ ~config.spread)
           => parasites' = << >> ]_vars


\* C33: the health of every fungus is derived from its nutrition: after every
\* fungus update and after every change of its nutrition, health equals
\* max(0.2, nutrition_value / 10); so a fungus with nutrition 4 or less has
\* health <= 0.4 and does not qualify to suppress parasites.  (Health is kept
\* in tenths and nutrition in tenths, hence the factor 10.)
C33_HealthDerived ==
    \A k \in DOMAIN fungi :
       /\ 10 * fungi[k].health = Max(20, fungi[k].nutrition_value)
       /\ fungi[k].nutrition_value <= 40 => fungi[k].health <= 4


\* an active entity of the list is on the cell
ActiveAt(list, cell) == \E k \in DOMAIN list : list[k].active /\ list[k].position = cell

\* the symbol of the highest-priority active entity on the cell: ant, then
\* predator, parasite, fungus, plant; the empty tile when there is none
TopSymbol(cell) ==
    IF ActiveAt(ants, cell) THEN TILE_ANT
    ELSE IF ActiveAt(predators, cell) THEN TILE_PREDATOR
    ELSE IF ActiveAt(parasites, cell) THEN TILE_PARASITE
    ELSE IF ActiveAt(fungi, cell) THEN TILE_FUNGUS
    ELSE IF ActiveAt(plants, cell) THEN TILE_PLANT
    ELSE TILE_EMPTY

\* C34: the symbol rendered for a cell is that of the highest-priority active
\* entity on it, with priority ant > predator > parasite > fungus > plant; a
\* cell is rendered empty if and only if no active entity is on it; inactive
\* entities still held in a collection are not drawn.
C34_GridLayering ==
    op = "render_grid"
       => LET rows == Lines(result.grid)
          IN  \A cell \in Cells(config.grid_size) :
                 /\ rows[cell[1] + 1][cell[2] + 1] = TopSymbol(cell)
                 /\ rows[cell[1] + 1][cell[2] + 1] = TILE_EMPTY
                       <=> ~\E list \in { ants, predators, parasites, fungi, plants } :
                              ActiveAt(list, cell)

\* C34 witness: a consumed fungus and a plant share the far corner, an ant and
\* a predator the near one: the far corner shows the plant, the near one the
\* ant.
C34_Witness ==
    /\ op = "render_grid" /\ config.grid_size = 5
    /\ fungi = << deactivate(Fungus(<< 4, 4 >>)) >> /\ plants = << Plant(<< 4, 4 >>) >>
    /\ ants = << Ant(<< 0, 0 >>) >> /\ predators = << Predator(<< 0, 0 >>) >>
    /\ parasites = << >>
    /\ Lines(result.grid)[5][5] = TILE_PLANT
    /\ Lines(result.grid)[1][1] = TILE_ANT


\* the phases that may follow a phase of step()
FollowingPhases(ph) ==
    CASE ph = "step" -> { "climate" }
      [] ph = "climate" -> { "update", "cleanup" }
      [] ph = "update" -> { "update", "cleanup" }
      [] ph = "cleanup" -> { "regen" }
      [] ph = "regen" -> { "repro" }
      [] ph = "repro" -> { "larvae", "spawn" }
      [] ph = "larvae" -> { "larvae", "spawn" }
      [] ph = "spawn" -> { "metrics" }
      [] ph = "metrics" -> { "return" }
      [] ph = "return" -> { "idle" }

\* C35: cancellation is cooperative.  When stop() is called while a run()
\* generator is suspended at a yield and the generator is resumed next, the
\* resumption executes no tick and the generator finishes.  And no tick is
\* interrupted part-way: every tick that starts goes through all its phases in
\* order (step counter, climate, entity updates, cleanup, plant regeneration,
\* ant reproduction, predator spawning), appends its metrics entry and
\* returns, the running flag and current_step being left alone meanwhile.
C35_CooperativeCancel ==
    [][ /\ (op = "stop" /\ Calls("next") /\ gen.state = "suspended")
           => (pc' = Idle /\ gen'.state = "done" /\ env' = env)
        /\ pc # Idle
           => /\ pc'.phase \in FollowingPhases(pc.phase)
              /\ pc.phase # "return"
                 => (is_running' = is_running /\ current_step' = current_step)
              /\ pc.phase = "metrics"
                 => Len(metrics'.step) = Len(metrics.step) + 1 ]_vars


\* C36: between two resets, under any interleaving of step_once(), stop() and
\* run() with the default budget, the number of ticks applied to one
\* environment (its step_count) never exceeds the configured simulation_steps.
C36_TicksWithinBudget == step_count <= config.simulation_steps

\* C37: after any sequence of driver operations, when no call is in progress,
\* the driver's current_step equals the step_count of its environment, which
\* equals the length of each of the environment's metrics arrays.
C37_CountersAgree ==
    pc = Idle
       => /\ current_step = step_count
          /\ \A name \in DOMAIN metrics : Len(metrics[name]) = step_count


\* C38: a plant is harvested at most once.  An ant's update creates at most
\* as many fungi as it deactivates plants, and when the entity updates of a
\* tick are over, the fungi created in the tick are at most as many as the
\* plants deactivated in it, also when several ants step onto the same
\* plant's cell.
C38_HarvestedOnce ==
    [][ (pc.phase = "update" /\ pc.list = 5)
           => /\ Len(fungi') - Len(fungi) <=
                    Cardinality({ k \in DOMAIN plants : plants[k].active /\ ~plants'[k].active })
              /\ pc'.phase = "cleanup"
                 => Len(fungi') - entry.lens[2] <=
                       Cardinality({ k \in DOMAIN plants' : ~plants'[k].active }) ]_vars


\* an active predator or an active parasite is at pos
ActiveThreatAt(pos) ==
    \/ \E k \in DOMAIN predators : predators[k].active /\ predators[k].position = pos
    \/ \E k \in DOMAIN parasites : parasites[k].active /\ parasites[k].position = pos

\* C39: an ant is deactivated by its threat check only when an active predator
\* or an active parasite is on the cell it stands on or on the cell it moves
\* onto: a predator that starved or a parasite that expired earlier in the
\* same tick, deactivated but not yet purged, does not kill it.
C39_ActiveThreatsOnly ==
    [][ (pc.phase = "update" /\ pc.list = 5 /\ ants[pc.i].active /\ ~ants'[pc.i].active)
           => \/ ActiveThreatAt(ants[pc.i].position)
              \/ ActiveThreatAt(ants'[pc.i].position) ]_vars


\* no two parasites of the collection are on the same cell
OnePerCell(list) == \A j, k \in DOMAIN list : j # k => list[j].position # list[k].position

\* C40: parasites never move and spread only onto parasite-free cells: when
\* no two parasites of the collection share a cell, as at the start when the
\* initial parasites were drawn on distinct cells, no step makes two share
\* one, and the parasite count does not exceed grid_size * grid_size.
C40_ParasitesOnePerCell ==
    [][ /\ pc # At("cleanup")
           => \A k \in DOMAIN parasites :
                 k \in DOMAIN parasites' /\ parasites'[k].position = parasites[k].position
        /\ pc = At("cleanup") => Positions(parasites') \subseteq Positions(parasites)
        /\ OnePerCell(parasites)
           => /\ OnePerCell(parasites')
              /\ Len(parasites') <= config.grid_size * config.grid_size ]_vars

\* C40 witness: two parasites that started on distinct cells have each spread
\* in the first tick; the four parasites are on four cells.
C40_Witness ==
    /\ config = Plague /\ step_count = 1 /\ pc = At("return")
    /\ Len(parasites) = 4 /\ OnePerCell(parasites)
    /\ parasites[1].spread_attempts = 1 /\ parasites[2].spread_attempts = 1

====
